---- MODULE Spec2Model ----
(***************************************************************************)
(* Real-time whiteboard: the socket server's presence registry, room       *)
(* router and canvas mutation handlers (server/socket/socketHandlers.js)   *)
(* over the Board documents of the persistence layer (models/Board.js).    *)
(*                                                                         *)
(* The server keeps two process-wide maps, activeUsers and boardRooms,     *)
(* both keyed by USER id, while socket.io keeps the rooms of every SOCKET. *)
(* Handlers that await the database are split at their awaits: the event   *)
(* is received, Board.findById resolves, board.save() resolves.            *)
(***************************************************************************)
EXTENDS Integers, Sequences, FiniteSets, TLC

(* ------------------------------ universe ------------------------------ *)
None == "none"

Conns == {"c1", "c2", "c3"}
Users == {"u1", "u2"}
\* socket.userId, set by authenticateSocket: c1 and c2 are two connections
\* (two tabs) of the same user.
UserOf == [c \in Conns |-> IF c = "c3" THEN "u2" ELSE "u1"]

\* B3 is an id with no Board document.
BoardIds == {"B1", "B2", "B3"}
ElemIds == {1, 2}
Vals == {0, 1}

\* the value of a property that is undefined or absent
Undefined == -1

(* ------------------------------- bounds ------------------------------- *)
MaxMutations == 2   \* mutation events the model lets the server receive
MaxElems     == 2   \* longest stored element list
MaxBatch     == 1   \* longest element array a client sends in one event
MaxJoins     == 1   \* join-board handlers suspended at their await at once
MaxInFlight  == 2   \* mutation handlers suspended at an await at once
MaxOpens     == 2   \* times the collaboration hook's effect runs again for a board
MaxVersionKey == 3  \* version key up to which the owner changes the collaborators
MaxOps       == 5   \* handlers the model lets one canvas page run
MaxEvents    == 3   \* cursor, tool and drawing events the model lets the server receive
MaxNow       == 2   \* the latest reading of the server's clock
MaxMoves     == 3   \* cursor-moved events the model lets one tab receive
MaxClock     == 7   \* the latest reading of the tab's clock, in seconds

MaxInputs    == 6   \* pointer, toolbar and keyboard inputs the model gives one canvas page

MaxSamples   == 3   \* pointer samples the model gives one resize or one stroke

MaxPage      == 3   \* longest element array of a canvas page

VARIABLES
  connected,    \* sockets whose 'connection' handler ran and not yet 'disconnect'
  closed,       \* sockets that disconnected (a socket id is never reused)
  activeUsers,  \* Map userId -> {socketId, user, joinedAt, currentBoard, role}
  boardRooms,   \* Map boardId -> Set(userId)
  rooms,        \* socket.io adapter: the rooms each socket is in
  boards,       \* the Board collection
  pend,         \* per socket: the handler suspended at an await, if any
  member,       \* history: the board each socket joined and has not left
  nMut,         \* history: mutation (or cursor, tool and drawing) events received
  nSaved,       \* history: per board, mutations whose save succeeded
  last,         \* the handler step just executed
  out,          \* the events that step emitted, in order
  now,          \* the server's clock, Date.now()
  delivered,    \* per socket: the cursor-moved events written to it, in order
  pageElements, \* canvas page: the live element array (the state `elements`)
  history,      \* canvas page: array of element arrays
  historyIndex, \* canvas page: the pointer into history, -1 at mount
  isConnected,  \* canvas page: realtimeCollab.isConnected
  listenerIndex,\* canvas page: the historyIndex the socket listeners closed over
  crashed,      \* canvas page: a state updater threw
  sent,         \* canvas page: the events emitted to the server, in order
  act,          \* canvas page: the handler just run and its argument
  run,          \* history: the editing session so far
  client,       \* one browser tab: socketService and the collaboration hook
  overlay,      \* the hook's cursor overlay: cursors, cursorTimeoutRef and its timers
  pointer,      \* canvas page: the interaction state (tool, selection, gesture flags, timers)
  shape         \* canvas page: the element a pointer-move resizes or draws, and the zoom

\* the canvas page of one client, and the cursor channel of the server
Page == <<pageElements, history, historyIndex, isConnected, listenerIndex, crashed, sent, act, run>>
Wire == <<now, delivered>>
\* the client side of one connection
Elsewhere == <<client, overlay, pointer, shape>>
\* the same without the tab's connection, and without the overlay
ExceptClient == <<overlay, pointer, shape>>
ExceptOverlay == <<client, pointer, shape>>

vars == <<connected, closed, activeUsers, boardRooms, rooms, boards, pend, member,
          nMut, nSaved, last, out, now, delivered, pageElements, history, historyIndex,
          isConnected, listenerIndex, crashed, sent, act, run, client, overlay, pointer, shape>>

(* ------------------------------ Board.js ------------------------------ *)
\* boardSchema.methods.hasAccess
HasAccessOpen(board, userId) ==
  IF board.owner = userId THEN [hasAccess |-> TRUE, role |-> "owner"]
  ELSE IF board.collaborators[userId] # None
       THEN [hasAccess |-> TRUE, role |-> board.collaborators[userId]]
  ELSE [hasAccess |-> TRUE, role |-> "viewer"]

HasAccess(board, userId) ==
  IF board.owner = userId THEN [hasAccess |-> TRUE, role |-> "owner"]
  ELSE IF board.collaborators[userId] # None
       THEN [hasAccess |-> TRUE, role |-> board.collaborators[userId]]
  ELSE IF board.isPublic THEN [hasAccess |-> TRUE, role |-> "viewer"]
  ELSE [hasAccess |-> FALSE, role |-> None]

\* !access.hasAccess || access.role === 'viewer'
NoEditPermissionOpen(access) == ~access.hasAccess

NoEditPermission(access) == ~access.hasAccess \/ access.role = "viewer"

\* boardSchema.methods.updateLastModified, up to the save() it returns:
\* the in-memory document after the handler's change to its elements.
UpdateLastModified(board, userId, elements) ==
  [board EXCEPT !.elements = elements,
                !.lastModifiedBy = userId,
                !.version = @ + 1]

NoBoard == [owner |-> None, collaborators |-> [u \in Users |-> None],
            isPublic |-> FALSE, elements |-> <<>>, lastModifiedBy |-> None,
            version |-> 0, versionKey |-> 0]

\* Board.findById
FindById(boardId) == IF boardId \in DOMAIN boards THEN boards[boardId] ELSE NoBoard
Found(boardId) == boardId \in DOMAIN boards

(* --------------------------- presence entries -------------------------- *)
NoEntry == [present |-> FALSE, socketId |-> None, currentBoard |-> None, role |-> None]

\* userData?.currentBoard
CurrentBoard(userId) ==
  IF activeUsers[userId].present THEN activeUsers[userId].currentBoard ELSE None

UsersInBoardUnfiltered(br, au, boardId) ==
  {[userId |-> u, socketId |-> au[u].socketId] : u \in {x \in br[boardId] : ~au[x].present}}

\* Array.from(boardRooms.get(boardId)).map(id => activeUsers.get(id)).filter(Boolean)
UsersInBoard(br, au, boardId) ==
  {[userId |-> u, socketId |-> au[u].socketId] : u \in {x \in br[boardId] : au[x].present}}

(* ------------------------------ emissions ------------------------------ *)
\* One emitted event: the sockets it is written to and what it carries.
Emit(to, ev, arg) == [ev |-> ev, to |-> to, arg |-> arg]

\* socket.emit: a disconnected socket receives nothing
ToSocket(s) == {s} \cap connected
\* io.to(room): every socket in the room
IoTo(rm, room) == {c \in Conns : room \in rm[c]}
\* socket.to(room): every socket in the room except the sender
SocketTo(rm, s, room) == IoTo(rm, room) \ {s}

ErrorToAll(s, message) == Emit(connected, "error", message)

ErrorTo(s, message) == Emit(ToSocket(s), "error", message)

\* no element: the fields of a stored element, all unset
NoElement == [id |-> 0, val |-> 0, createdBy |-> None, lastModifiedBy |-> None]

\* A handler suspended at an await: the event's data, and after findById
\* the in-memory document (doc), the element it built (el), whether its
\* change to board.elements was a push, the index it assigned if its change
\* was board.elements[i] = ... (at, 0 if none), and (history) whether the
\* element id the event names was in the list findById returned (hit).
Idle == [pc |-> "idle", ev |-> None, boardId |-> None, action |-> None,
         element |-> [id |-> 0, val |-> 0], elements |-> <<>>,
         push |-> FALSE, at |-> 0, el |-> NoElement, doc |-> NoBoard, hit |-> FALSE]

\* The step just executed: the event, the socket whose handler ran, the board
\* and data the event named, and where the handler stopped.
Step(ev, s, boardId, stage) ==
  [ev |-> ev, conn |-> s, boardId |-> boardId, stage |-> stage, action |-> None, id |-> 0,
   hit |-> FALSE]
StepOf(p, s, stage, hit) ==
  [ev |-> p.ev, conn |-> s, boardId |-> p.boardId, stage |-> stage,
   action |-> p.action, id |-> p.element.id, hit |-> hit]

(* ------------------------- handleUserLeaveBoard ------------------------ *)
\* The maps and emissions after handleUserLeaveBoard(socket, boardId), from
\* the maps br, rm, au.
HandleUserLeaveBoard(br, rm, au, s, boardId) ==
  LET u   == UserOf[s]
      br1 == IF boardId \in DOMAIN br
             THEN LET left == br[boardId] \ {u}
                  IN IF left = {}
                     THEN [b \in DOMAIN br \ {boardId} |-> br[b]]
                     ELSE [br EXCEPT ![boardId] = left]
             ELSE br
      e1  == Emit(SocketTo(rm, s, boardId), "user-left", u)
      rm1 == [rm EXCEPT ![s] = @ \ {boardId}]
      e2  == IF boardId \in DOMAIN br1
             THEN <<Emit(SocketTo(rm1, s, boardId), "active-users-updated",
                         UsersInBoard(br1, au, boardId))>>
             ELSE <<>>
      au1 == IF au[u].present THEN [au EXCEPT ![u].currentBoard = None] ELSE au
  IN [br |-> br1, rm |-> rm1, au |-> au1, out |-> <<e1>> \o e2]

(* ------------------- the parts a specification leaves out ------------------ *)
\* no cursor event was handled yet
Quiet ==
  /\ now = 0
  /\ delivered = [c \in Conns |-> <<>>]

\* no canvas page is open
Unmounted ==
  /\ pageElements = <<>>
  /\ history = <<>>
  /\ historyIndex = -1
  /\ isConnected = FALSE
  /\ listenerIndex = -1
  /\ crashed = FALSE
  /\ sent = <<>>
  /\ act = [name |-> "none", id |-> 0, els |-> <<>>, rec |-> FALSE]
  /\ run = [initial |-> <<>>, final |-> <<>>, phase |-> "none", nRec |-> 0, nUndo |-> 0,
            nRedo |-> 0, ops |-> 0]

\* no browser tab is modelled: socketService as constructed
NoClient ==
  [page |-> None, link |-> "closed", sock |-> None, svc |-> FALSE, board |-> None,
   hook |-> FALSE, timer |-> FALSE, attempts |-> 0, wire |-> <<>>,
   joined |-> None, lost |-> FALSE, resent |-> FALSE, stale |-> {}, opens |-> 0]

\* the hook's state at mount: new Map() for cursors and for cursorTimeoutRef,
\* no timer set; clock is the time in seconds and next the id the next
\* setTimeout returns
NoOverlay ==
  [cursors |-> [u \in Users |-> Undefined], ref |-> [u \in Users |-> 0], timers |-> {},
   clock |-> 0, next |-> 1, did |-> "mount", moves |-> 0]

\* the page as mounted: the select tool, nothing selected, no gesture under
\* way, no throttle or debounce timer pending
NoPointer ==
  [activeTool |-> "select", selectedElement |-> 0, isDragging |-> FALSE, isResizing |-> FALSE,
   resizeCorner |-> None, drawingTempId |-> 0, held |-> FALSE,
   positionUpdateTimeout |-> <<>>, textUpdateTimeout |-> <<>>, cursorUpdateTimeout |-> FALSE,
   did |-> "mount", target |-> 0, ended |-> {}, owed |-> {}, ops |-> 0]

\* no element is being resized or drawn
NoShape == [did |-> "none"]

Still == pointer = NoPointer /\ shape = NoShape

Detached == client = NoClient /\ overlay = NoOverlay /\ Still

(* -------------------------------- Init -------------------------------- *)
\* Two boards, newly created (no elements, version at its schema default):
\* u1 owns B1 and u2 views it; u2 owns B2 and u1 edits it.
InitialBoards ==
  [b \in {"B1", "B2"} |->
     IF b = "B1"
     THEN [owner |-> "u1", collaborators |-> [u \in Users |-> IF u = "u2" THEN "viewer" ELSE None],
           isPublic |-> FALSE, elements |-> <<>>, lastModifiedBy |-> None, version |-> 1,
           versionKey |-> 0]
     ELSE [owner |-> "u2", collaborators |-> [u \in Users |-> IF u = "u1" THEN "editor" ELSE None],
           isPublic |-> FALSE, elements |-> <<>>, lastModifiedBy |-> None, version |-> 1,
           versionKey |-> 0]]

\* the server after start-up, before any socket connected
Fresh ==
  /\ connected = {}
  /\ closed = {}
  /\ activeUsers = [u \in Users |-> NoEntry]
  /\ boardRooms = <<>>
  /\ rooms = [c \in Conns |-> {}]
  /\ boards = InitialBoards
  /\ pend = [c \in Conns |-> Idle]
  /\ member = [c \in Conns |-> None]
  /\ nMut = 0
  /\ nSaved = [b \in {"B1", "B2"} |-> 0]
  /\ last = Step("init", None, None, "done")
  /\ out = <<>>

Init == Fresh /\ Quiet /\ Unmounted /\ Detached

(* ------------------------- io.on('connection') ------------------------- *)
OnConnection(s) ==
  /\ s \notin connected \cup closed
  /\ connected' = connected \cup {s}
  /\ activeUsers' = [activeUsers EXCEPT ![UserOf[s]] =
                       [present |-> TRUE, socketId |-> s, currentBoard |-> None, role |-> None]]
  /\ last' = Step("connection", s, None, "done")
  /\ out' = <<Emit({s}, "connected", UserOf[s])>>
  /\ UNCHANGED <<closed, boardRooms, rooms, boards, pend, member, nMut, nSaved, Page, Wire>>

\* the handler, seen from the server alone
Connect(s) == OnConnection(s) /\ UNCHANGED Elsewhere

(* ------------------------------ join-board ----------------------------- *)
OnJoinBoard(s, boardId) ==
  /\ s \in connected
  /\ pend[s].pc = "idle"
  /\ Cardinality({c \in Conns : pend[c].ev = "join-board"}) < MaxJoins
  /\ pend' = [pend EXCEPT ![s] = [Idle EXCEPT !.pc = "find", !.ev = "join-board", !.boardId = boardId]]
  /\ last' = Step("join-board", s, boardId, "received")
  /\ out' = <<>>
  /\ UNCHANGED <<connected, closed, activeUsers, boardRooms, rooms, boards, member, nMut, nSaved,
                 Page, Wire>>

JoinBoard(s, boardId) == OnJoinBoard(s, boardId) /\ UNCHANGED Elsewhere

\* the handler after Board.findById resolved
OnJoinBoardFound(s) ==
  /\ pend[s].pc = "find"
  /\ pend[s].ev = "join-board"
  /\ LET boardId == pend[s].boardId
         u       == UserOf[s]
         board   == FindById(boardId)
         access  == HasAccess(board, u)
         prev    == CurrentBoard(u)
         rm1     == IF prev # None THEN [rooms EXCEPT ![s] = @ \ {prev}] ELSE rooms
         rm2     == IF s \in connected THEN [rm1 EXCEPT ![s] = @ \cup {boardId}] ELSE rm1
         au1     == [activeUsers EXCEPT ![u].currentBoard = boardId, ![u].role = access.role]
         br1     == IF boardId \in DOMAIN boardRooms
                    THEN [boardRooms EXCEPT ![boardId] = @ \cup {u}]
                    ELSE [b \in DOMAIN boardRooms \cup {boardId} |->
                            IF b = boardId THEN {u} ELSE boardRooms[b]]
         usersInBoard == UsersInBoard(br1, au1, boardId)
     IN /\ pend' = [pend EXCEPT ![s] = Idle]
        /\ IF ~Found(boardId)
           THEN /\ out' = <<ErrorTo(s, "Board not found")>>
                /\ last' = Step("join-board", s, boardId, "error")
                /\ UNCHANGED <<activeUsers, boardRooms, rooms, member>>
           ELSE IF ~access.hasAccess
           THEN /\ out' = <<ErrorTo(s, "Access denied to board")>>
                /\ last' = Step("join-board", s, boardId, "error")
                /\ UNCHANGED <<activeUsers, boardRooms, rooms, member>>
           ELSE IF ~activeUsers[u].present
           THEN \* userData is undefined: the assignment throws after socket.join
                /\ rooms' = rm2
                /\ out' = <<ErrorTo(s, "Failed to join board")>>
                /\ last' = Step("join-board", s, boardId, "error")
                /\ UNCHANGED <<activeUsers, boardRooms, member>>
           ELSE /\ rooms' = rm2
                /\ activeUsers' = au1
                /\ boardRooms' = br1
                /\ member' = [member EXCEPT ![s] = IF s \in connected THEN boardId ELSE None]
                /\ out' = <<Emit(SocketTo(rm2, s, boardId), "user-joined", u),
                            Emit(ToSocket(s), "board-joined", usersInBoard),
                            Emit(IoTo(rm2, boardId), "active-users-updated", usersInBoard)>>
                /\ last' = Step("join-board", s, boardId, "joined")
  /\ UNCHANGED <<connected, closed, boards, nMut, nSaved, Page, Wire>>

JoinBoardFound(s) == OnJoinBoardFound(s) /\ UNCHANGED Elsewhere

(* ----------------------------- leave-board ----------------------------- *)
OnLeaveBoard(s) ==
  /\ s \in connected
  /\ LET u == UserOf[s]
         r == HandleUserLeaveBoard(boardRooms, rooms, activeUsers, s, CurrentBoard(u))
     IN IF CurrentBoard(u) # None
        THEN /\ boardRooms' = r.br
             /\ rooms' = r.rm
             /\ activeUsers' = r.au
             /\ out' = r.out
        ELSE /\ out' = <<>>
             /\ UNCHANGED <<boardRooms, rooms, activeUsers>>
  /\ member' = [member EXCEPT ![s] = None]
  /\ last' = Step("leave-board", s, CurrentBoard(UserOf[s]), "done")
  /\ UNCHANGED <<connected, closed, boards, pend, nMut, nSaved, Page, Wire>>

LeaveBoard(s) == OnLeaveBoard(s) /\ UNCHANGED Elsewhere

(* ------------------------------ disconnect ----------------------------- *)
OnDisconnect(s) ==
  /\ s \in connected
  /\ connected' = connected \ {s}
  /\ closed' = closed \cup {s}
  /\ LET u   == UserOf[s]
         rm0 == [rooms EXCEPT ![s] = {}]   \* socket.io left every room already
         r   == HandleUserLeaveBoard(boardRooms, rm0, activeUsers, s, CurrentBoard(u))
     IN IF CurrentBoard(u) # None
        THEN /\ boardRooms' = r.br
             /\ rooms' = r.rm
             /\ activeUsers' = [r.au EXCEPT ![u] = NoEntry]
             /\ out' = r.out
        ELSE /\ out' = <<>>
             /\ rooms' = rm0
             /\ activeUsers' = [activeUsers EXCEPT ![u] = NoEntry]
             /\ UNCHANGED boardRooms
  /\ member' = [member EXCEPT ![s] = None]
  /\ last' = Step("disconnect", s, CurrentBoard(UserOf[s]), "done")
  /\ UNCHANGED <<boards, pend, nMut, nSaved, Page, Wire>>

Disconnect(s) == OnDisconnect(s) /\ UNCHANGED Elsewhere

(* ------------------------- element list helpers ------------------------ *)
\* board.elements.findIndex(el => el.id === id); 0 stands for -1
FindIndex(elements, id) ==
  IF \E i \in 1..Len(elements) : elements[i].id = id
  THEN CHOOSE i \in 1..Len(elements) :
         /\ elements[i].id = id
         /\ \A j \in 1..(i - 1) : elements[j].id # id
  ELSE 0

ElementExistsAlways(elements, id) == TRUE

\* board.elements.some(el => el.id === elementId)
ElementExists(elements, id) == \E i \in 1..Len(elements) : elements[i].id = id

\* board.elements.filter(el => el.id !== id)
FilterOut(elements, id) == SelectSeq(elements, LAMBDA e : e.id # id)

\* An id a client sends is a JSON string or a JSON number: the string "n" is
\* written n and the number n is written NumberId(n), so that === tells them
\* apart.
NumberId(n) == -n

\* the schema's id: String casts what is stored: String(n) is "n"
CastString(id) == IF id < 0 THEN -id ELSE id

NewElementUnstamped(element, userId) ==
  [id |-> CastString(element.id), val |-> element.val, createdBy |-> None, lastModifiedBy |-> None]

\* { ...element, id: element.id || ..., createdBy: socket.userId, createdAt, updatedAt }
NewElement(element, userId) ==
  [id |-> CastString(element.id), val |-> element.val, createdBy |-> userId, lastModifiedBy |-> None]

\* { ...board.elements[i], ...element, updatedAt, lastModifiedBy: socket.userId }
Merged(old, element, userId) ==
  [id |-> CastString(element.id), val |-> element.val, createdBy |-> old.createdBy,
   lastModifiedBy |-> userId]

\* elements.map(el => ({ ...el, updatedAt, lastModifiedBy: el.lastModifiedBy || socket.userId }))
Stamped(elements, userId) ==
  [i \in 1..Len(elements) |->
     [id |-> CastString(elements[i].id), val |-> elements[i].val, createdBy |-> None,
      lastModifiedBy |-> userId]]

\* what clients send: one element, or an element array
ClientElements == [id : ElemIds, val : Vals]
ClientArrays == UNION {[1..n -> ClientElements] : n \in 0..MaxBatch}

InFlight == Cardinality({c \in Conns : pend[c].pc # "idle" /\ pend[c].ev # "join-board"})

(* --------------------- receipt of a mutation event --------------------- *)
\* The synchronous head shared by canvas-update, board-save and element-*:
\* the sender must be in the board the event names, then Board.findById is
\* awaited.
Receive(s, ev, boardId, action, element, elements) ==
  /\ s \in connected
  /\ pend[s].pc = "idle"
  /\ InFlight < MaxInFlight
  /\ nMut < MaxMutations
  /\ nMut' = nMut + 1
  /\ IF CurrentBoard(UserOf[s]) # boardId
     THEN /\ out' = <<ErrorTo(s, "Not in this board")>>
          /\ last' = [Step(ev, s, boardId, "not-in-board") EXCEPT !.action = action, !.id = element.id]
          /\ UNCHANGED pend
     ELSE /\ out' = <<>>
          /\ last' = [Step(ev, s, boardId, "received") EXCEPT !.action = action, !.id = element.id]
          /\ pend' = [pend EXCEPT ![s] =
                        [Idle EXCEPT !.pc = "find", !.ev = ev, !.boardId = boardId,
                                     !.action = action, !.element = element,
                                     !.elements = elements]]
  /\ UNCHANGED <<connected, closed, activeUsers, boardRooms, rooms, boards, member, nSaved,
                 Page, Wire, Elsewhere>>

\* history: the list findById returns holds the element id the event names
Hit(p) == \E i \in 1..Len(FindById(p.boardId).elements) :
            FindById(p.boardId).elements[i].id = p.element.id

\* The handler calls board.updateLastModified and awaits its save().
AwaitSave(s, doc, push, el) ==
  /\ pend' = [pend EXCEPT ![s].pc = "save", ![s].doc = doc, ![s].push = push, ![s].el = el,
                          ![s].hit = Hit(pend[s])]
  /\ out' = <<>>
  /\ last' = StepOf(pend[s], s, "saving", Hit(pend[s]))
  /\ UNCHANGED <<boards, nSaved>>

\* The same, after the handler assigned board.elements[idx].
AwaitSaveAt(s, doc, idx, el) ==
  /\ pend' = [pend EXCEPT ![s].pc = "save", ![s].doc = doc, ![s].at = idx, ![s].el = el,
                          ![s].hit = Hit(pend[s])]
  /\ out' = <<>>
  /\ last' = StepOf(pend[s], s, "saving", Hit(pend[s]))
  /\ UNCHANGED <<boards, nSaved>>

\* The handler returns without touching the database.
Finish(s, stage, emitted) ==
  /\ pend' = [pend EXCEPT ![s] = Idle]
  /\ out' = emitted
  /\ last' = StepOf(pend[s], s, stage, Hit(pend[s]))
  /\ UNCHANGED <<boards, nSaved>>

\* The array version check of save(). A push is sent as $push and only
\* increments the document's version key; an assignment to one index is sent
\* as a $set of that position and requires the stored version key to be the
\* one read; an assignment of the whole array requires it and increments it.
\* When the stored key differs save() rejects with a VersionError.
VersionMatches(p) == p.push \/ boards[p.boardId].versionKey = p.doc.versionKey

\* board.save() resolves: the document's changed paths are written.
SaveOk(s, emitted) ==
  LET p == pend[s]
      b == p.boardId
  IN /\ boards' = [boards EXCEPT
                     ![b].elements = IF p.push THEN Append(@, p.el)
                                     ELSE IF p.at # 0 THEN [@ EXCEPT ![p.at] = p.doc.elements[p.at]]
                                     ELSE p.doc.elements,
                     ![b].versionKey = IF p.at # 0 THEN @ ELSE @ + 1,
                     ![b].version = p.doc.version,
                     ![b].lastModifiedBy = p.doc.lastModifiedBy]
     /\ nSaved' = [nSaved EXCEPT ![b] = @ + 1]
     /\ pend' = [pend EXCEPT ![s] = Idle]
     /\ out' = emitted
     /\ last' = StepOf(p, s, "saved", p.hit)

SaveFailedAfterBroadcast(s, message) ==
  /\ pend' = [pend EXCEPT ![s] = Idle]
  /\ out' = <<Emit(SocketTo(rooms, s, pend[s].boardId), "canvas-updated", pend[s].action),
              ErrorTo(s, message)>>
  /\ last' = StepOf(pend[s], s, "failed", pend[s].hit)
  /\ UNCHANGED <<boards, nSaved>>

\* board.save() rejects: the handler's catch reports it to the sender.
SaveFailed(s, message) ==
  /\ pend' = [pend EXCEPT ![s] = Idle]
  /\ out' = <<ErrorTo(s, message)>>
  /\ last' = StepOf(pend[s], s, "failed", pend[s].hit)
  /\ UNCHANGED <<boards, nSaved>>

Presence == <<connected, closed, activeUsers, boardRooms, rooms, member>>

(* ---------------------------- canvas-update ---------------------------- *)
CanvasUpdate(s, boardId, action, element, elements) ==
  /\ action \in {"add"} => Len(FindById(boardId).elements) < MaxElems
  /\ Receive(s, "canvas-update", boardId, action, element, elements)

CanvasUpdated(s, p, board) ==
  <<Emit(SocketTo(rooms, s, p.boardId), "canvas-updated",
         [elements |-> IF p.action = "batch" THEN Stamped(p.elements, None) ELSE board.elements,
          action |-> p.action, boardVersion |-> board.version]),
    Emit(ToSocket(s), "canvas-update-confirmed", p.action)>>

CanvasUpdateFound(s) ==
  /\ pend[s].pc = "find"
  /\ pend[s].ev = "canvas-update"
  /\ LET p      == pend[s]
         u      == UserOf[s]
         board  == FindById(p.boardId)
         access == HasAccess(board, u)
         idx    == FindIndex(board.elements, p.element.id)
     IN IF ~Found(p.boardId)
        THEN Finish(s, "error", <<ErrorTo(s, "Board not found")>>)
        ELSE IF ~access.hasAccess \/ (access.role = "viewer" /\ p.action # "cursor")
        THEN Finish(s, "error", <<ErrorTo(s, "No edit permission for this board")>>)
        ELSE IF p.action = "add"
        THEN AwaitSave(s, UpdateLastModified(board, u, Append(board.elements, NewElement(p.element, u))),
                       TRUE, NewElement(p.element, u))
        ELSE IF p.action = "update" /\ idx # 0
        THEN AwaitSaveAt(s, UpdateLastModified(board, u,
                              [board.elements EXCEPT ![idx] = Merged(@, p.element, u)]),
                         idx, NoElement)
        ELSE IF p.action = "delete"
        THEN AwaitSave(s, UpdateLastModified(board, u, FilterOut(board.elements, p.element.id)),
                       FALSE, NoElement)
        ELSE IF p.action = "batch"
        THEN AwaitSave(s, UpdateLastModified(board, u, Stamped(p.elements, u)), FALSE, NoElement)
        ELSE Finish(s, "done", CanvasUpdated(s, p, board))
  /\ UNCHANGED <<Presence, nMut, Page, Wire, Elsewhere>>

CanvasUpdateSaved(s, ok) ==
  /\ pend[s].pc = "save"
  /\ pend[s].ev = "canvas-update"
  /\ IF ok /\ VersionMatches(pend[s]) THEN SaveOk(s, CanvasUpdated(s, pend[s], pend[s].doc))
     ELSE SaveFailed(s, "Failed to update canvas")
  /\ UNCHANGED <<Presence, nMut, Page, Wire, Elsewhere>>

(* ---------------------------- element-create --------------------------- *)
ElementCreate(s, boardId, element) ==
  /\ Len(FindById(boardId).elements) < MaxElems
  /\ Receive(s, "element-create", boardId, None, element, <<>>)

ElementCreateFound(s) ==
  /\ pend[s].pc = "find"
  /\ pend[s].ev = "element-create"
  /\ LET p      == pend[s]
         u      == UserOf[s]
         board  == FindById(p.boardId)
         access == HasAccess(board, u)
     IN IF ~Found(p.boardId)
        THEN Finish(s, "error", <<ErrorTo(s, "Board not found")>>)
        ELSE IF NoEditPermission(access)
        THEN Finish(s, "error", <<ErrorTo(s, "No edit permission")>>)
        ELSE AwaitSave(s, UpdateLastModified(board, u, Append(board.elements, NewElement(p.element, u))),
                       TRUE, NewElement(p.element, u))
  /\ UNCHANGED <<Presence, nMut, Page, Wire, Elsewhere>>

ElementCreateSaved(s, ok) ==
  /\ pend[s].pc = "save"
  /\ pend[s].ev = "element-create"
  /\ IF ok /\ VersionMatches(pend[s]) THEN SaveOk(s, <<Emit(IoTo(rooms, pend[s].boardId), "element-created", pend[s].el)>>)
     ELSE SaveFailed(s, "Failed to create element")
  /\ UNCHANGED <<Presence, nMut, Page, Wire, Elsewhere>>

(* ---------------------------- element-update --------------------------- *)
ElementUpdate(s, boardId, element) ==
  Receive(s, "element-update", boardId, None, element, <<>>)

ElementUpdateFound(s) ==
  /\ pend[s].pc = "find"
  /\ pend[s].ev = "element-update"
  /\ LET p      == pend[s]
         u      == UserOf[s]
         board  == FindById(p.boardId)
         access == HasAccess(board, u)
         elementIndex == FindIndex(board.elements, p.element.id)
     IN IF ~Found(p.boardId)
        THEN Finish(s, "error", <<ErrorTo(s, "Board not found")>>)
        ELSE IF NoEditPermission(access)
        THEN Finish(s, "error", <<ErrorTo(s, "No edit permission")>>)
        ELSE IF elementIndex # 0
        THEN AwaitSaveAt(s, UpdateLastModified(board, u,
                              [board.elements EXCEPT ![elementIndex] = Merged(@, p.element, u)]),
                         elementIndex, Merged(board.elements[elementIndex], p.element, u))
        ELSE Finish(s, "error", <<ErrorTo(s, "Element not found")>>)
  /\ UNCHANGED <<Presence, nMut, Page, Wire, Elsewhere>>

ElementUpdateSaved(s, ok) ==
  /\ pend[s].pc = "save"
  /\ pend[s].ev = "element-update"
  /\ IF ok /\ VersionMatches(pend[s]) THEN SaveOk(s, <<Emit(IoTo(rooms, pend[s].boardId), "element-updated", pend[s].el)>>)
     ELSE SaveFailed(s, "Failed to update element")
  /\ UNCHANGED <<Presence, nMut, Page, Wire, Elsewhere>>

(* ---------------------------- element-delete --------------------------- *)
ElementDelete(s, boardId, elementId) ==
  Receive(s, "element-delete", boardId, None, [id |-> elementId, val |-> 0], <<>>)

ElementDeleteFound(s) ==
  /\ pend[s].pc = "find"
  /\ pend[s].ev = "element-delete"
  /\ LET p      == pend[s]
         u      == UserOf[s]
         board  == FindById(p.boardId)
         access == HasAccess(board, u)
         elementExists == ElementExists(board.elements, p.element.id)
     IN IF ~Found(p.boardId)
        THEN Finish(s, "error", <<ErrorTo(s, "Board not found")>>)
        ELSE IF NoEditPermission(access)
        THEN Finish(s, "error", <<ErrorTo(s, "No edit permission")>>)
        ELSE IF elementExists
        THEN AwaitSave(s, UpdateLastModified(board, u, FilterOut(board.elements, p.element.id)),
                       FALSE, NoElement)
        ELSE Finish(s, "error", <<ErrorTo(s, "Element not found")>>)
  /\ UNCHANGED <<Presence, nMut, Page, Wire, Elsewhere>>

ElementDeleteSaved(s, ok) ==
  /\ pend[s].pc = "save"
  /\ pend[s].ev = "element-delete"
  /\ IF ok /\ VersionMatches(pend[s]) THEN SaveOk(s, <<Emit(IoTo(rooms, pend[s].boardId), "element-deleted", pend[s].element.id)>>)
     ELSE SaveFailed(s, "Failed to delete element")
  /\ UNCHANGED <<Presence, nMut, Page, Wire, Elsewhere>>

(* ------------------------------ board-save ----------------------------- *)
BoardSave(s, boardId, elements) ==
  Receive(s, "board-save", boardId, None, [id |-> 0, val |-> 0], elements)

BoardSaved(s, p) ==
  <<Emit(SocketTo(rooms, s, p.boardId), "board-saved", Len(p.elements))>>

BoardSaveFound(s) ==
  /\ pend[s].pc = "find"
  /\ pend[s].ev = "board-save"
  /\ LET p      == pend[s]
         u      == UserOf[s]
         board  == FindById(p.boardId)
         access == HasAccess(board, u)
     IN IF Found(p.boardId) /\ access.hasAccess /\ access.role # "viewer"
        THEN AwaitSave(s, UpdateLastModified(board, u, Stamped(p.elements, u)), FALSE, NoElement)
        ELSE Finish(s, "done", BoardSaved(s, p))
  /\ UNCHANGED <<Presence, nMut, Page, Wire, Elsewhere>>

BoardSaveSaved(s, ok) ==
  /\ pend[s].pc = "save"
  /\ pend[s].ev = "board-save"
  /\ IF ok /\ VersionMatches(pend[s]) THEN SaveOk(s, BoardSaved(s, pend[s]))
     ELSE SaveFailed(s, "Failed to save board")
  /\ UNCHANGED <<Presence, nMut, Page, Wire, Elsewhere>>

Next ==
  \/ \E s \in Conns : Connect(s)
  \/ \E s \in Conns, b \in BoardIds : JoinBoard(s, b)
  \/ \E s \in Conns : JoinBoardFound(s)
  \/ \E s \in Conns : LeaveBoard(s)
  \/ \E s \in Conns : Disconnect(s)

Spec == Init /\ [][Next]_vars

(* ---------------- the mutation handlers, over joined rooms -------------- *)
\* The registry after c1 (u1) and then c3 (u2) connected and joined boardId.
Joined(boardId) ==
  /\ connected = {"c1", "c3"}
  /\ closed = {}
  /\ activeUsers = [u \in Users |->
        [present |-> TRUE, socketId |-> IF u = "u1" THEN "c1" ELSE "c3",
         currentBoard |-> boardId, role |-> HasAccess(boards[boardId], u).role]]
  /\ boardRooms = [b \in {boardId} |-> Users]
  /\ rooms = [c \in Conns |-> IF c = "c2" THEN {} ELSE {boardId}]
  /\ member = [c \in Conns |-> IF c = "c2" THEN None ELSE boardId]

\* The collection after u2 and then u1 each created an element on B2: two
\* pushes, each saved through updateLastModified.
EditedBoards ==
  [InitialBoards EXCEPT
     !["B2"].elements = <<NewElement([id |-> 1, val |-> 0], "u2"),
                          NewElement([id |-> 2, val |-> 0], "u1")>>,
     !["B2"].lastModifiedBy = "u1",
     !["B2"].version = 3,
     !["B2"].versionKey = 2]

InitMut ==
  /\ \/ boards = InitialBoards /\ \E b \in {"B1", "B2"} : Joined(b)
     \/ boards = EditedBoards /\ Joined("B2")
  /\ pend = [c \in Conns |-> Idle]
  /\ nMut = 0
  /\ nSaved = [b \in {"B1", "B2"} |-> boards[b].version - InitialBoards[b].version]
  /\ last = Step("init", None, None, "done")
  /\ out = <<>>
  /\ Quiet
  /\ Unmounted
  /\ Detached

NextMut ==
  \/ \E s \in Conns, b \in BoardIds, a \in {"add", "update", "delete", "cursor"}, e \in ClientElements :
        CanvasUpdate(s, b, a, e, <<>>)
  \/ \E s \in Conns, b \in BoardIds, es \in ClientArrays :
        CanvasUpdate(s, b, "batch", [id |-> 0, val |-> 0], es)
  \/ \E s \in Conns : CanvasUpdateFound(s)
  \/ \E s \in Conns, ok \in BOOLEAN : CanvasUpdateSaved(s, ok)
  \/ \E s \in Conns, b \in BoardIds, e \in ClientElements : ElementCreate(s, b, e)
  \/ \E s \in Conns : ElementCreateFound(s)
  \/ \E s \in Conns, ok \in BOOLEAN : ElementCreateSaved(s, ok)
  \/ \E s \in Conns, b \in BoardIds, e \in ClientElements : ElementUpdate(s, b, e)
  \/ \E s \in Conns : ElementUpdateFound(s)
  \/ \E s \in Conns, ok \in BOOLEAN : ElementUpdateSaved(s, ok)
  \/ \E s \in Conns, b \in BoardIds, i \in ElemIds : ElementDelete(s, b, i)
  \/ \E s \in Conns : ElementDeleteFound(s)
  \/ \E s \in Conns, ok \in BOOLEAN : ElementDeleteSaved(s, ok)
  \/ \E s \in Conns, b \in BoardIds, es \in ClientArrays : BoardSave(s, b, es)
  \/ \E s \in Conns : BoardSaveFound(s)
  \/ \E s \in Conns, ok \in BOOLEAN : BoardSaveSaved(s, ok)
  \/ \E s \in Conns : Disconnect(s)

SpecMut == InitMut /\ [][NextMut]_vars

(* ======================================================================= *)
(*            The canvas page of one client (CanvasPageFixed.jsx)          *)
(* ======================================================================= *)
Server == <<connected, closed, activeUsers, boardRooms, rooms, boards, pend, member,
            nMut, nSaved, last, out>>

\* if (next.length > 50) next.shift()
HistoryLimit == 50
\* Math.min(idx + 1, 49)
LastIndex == 49

Min(a, b) == IF a < b THEN a ELSE b

\* el.id
IdOf(x) == IF "id" \in DOMAIN x THEN x.id ELSE Undefined

PageIds(els) == {IdOf(els[i]) : i \in 1..Len(els)}

\* { ...a, ...b }
Merge(a, b) == [f \in DOMAIN a \cup DOMAIN b |-> IF f \in DOMAIN b THEN b[f] ELSE a[f]]

\* JSON.parse(JSON.stringify(x)) of one object: a property whose value is
\* undefined is dropped.
Json(x) == [f \in {g \in DOMAIN x : ~(g = "points" /\ x[g] = Undefined)} |-> x[f]]

\* JSON.parse(JSON.stringify(els))
DeepCopy(els) == [i \in 1..Len(els) |-> Json(els[i])]

\* the object addElement builds (points is undefined unless the type is freehand)
NewPageElement(id) == [id |-> id, val |-> 0, points |-> Undefined]

\* recordHistory(els), run by a function that closed over historyIndex =
\* closureIndex: the updaters of setHistory and setHistoryIndex applied to
\* the current history prev and pointer idx.
RecordHistory(prev, idx, closureIndex, els) ==
  LET trimmed == SubSeq(prev, 1, Min(closureIndex + 1, Len(prev)))
      next    == Append(trimmed, DeepCopy(els))
  IN [history |-> IF Len(next) > HistoryLimit THEN Tail(next) ELSE next,
      historyIndex |-> Min(idx + 1, LastIndex)]

\* x === data for a primitive x, where data is the argument a socket listener
\* was called with: a primitive is carried as [value |-> x], an object by its
\* properties.
StrictEquals(x, data) == DOMAIN data = {"value"} /\ data.value = x

\* what the server emits with element-created, element-updated, element-deleted
CreatedPayloads ==
  {[element |-> [id |-> i, val |-> 0, createdBy |-> u], createdBy |-> u] :
     i \in ElemIds, u \in Users}
UpdatedPayloads ==
  {[element |-> [id |-> i, val |-> 1, lastModifiedBy |-> "u2"], updatedBy |-> "u2"] :
     i \in ElemIds}
DeletedPayloads == {[elementId |-> i, deletedBy |-> "u2"] : i \in ElemIds}

\* the element arrays the page loads from localStorage when the board opens
StoredArrays == {<<>>, <<[id |-> 1, val |-> 0]>>}

\* act: the handler just run, the id it was about, and the array it passed to
\* recordHistory if it called it (rec).
\* history: the editing session. A run of recorded local mutations (edit),
\* then of undos, then of redos; anything else ends it (void).
Edited(r, els) ==
  IF r.phase = "edit"
  THEN [r EXCEPT !.nRec = @ + 1, !.final = els, !.ops = @ + 1]
  ELSE [r EXCEPT !.phase = "void", !.ops = @ + 1]
Undone(r) ==
  IF r.phase \in {"edit", "undo"}
  THEN [r EXCEPT !.phase = "undo", !.nUndo = @ + 1, !.ops = @ + 1]
  ELSE [r EXCEPT !.phase = "void", !.ops = @ + 1]
Redone(r) ==
  IF r.phase \in {"undo", "redo"} /\ r.nUndo = r.nRec
  THEN [r EXCEPT !.phase = "redo", !.nRedo = @ + 1, !.ops = @ + 1]
  ELSE [r EXCEPT !.phase = "void", !.ops = @ + 1]
Received(r) == [r EXCEPT !.phase = "void", !.ops = @ + 1]

\* the page after the board and its saved elements loaded
Mounted(stored) ==
  /\ pageElements = stored
  /\ history = <<>>
  /\ historyIndex = -1
  /\ isConnected = FALSE
  /\ listenerIndex = -1
  /\ crashed = FALSE
  /\ sent = <<>>
  /\ act = [name |-> "mount", id |-> 0, els |-> <<>>, rec |-> FALSE]
  /\ run = [initial |-> stored, final |-> stored, phase |-> "edit", nRec |-> 0, nUndo |-> 0,
            nRedo |-> 0, ops |-> 0]

InitPage == Fresh /\ Quiet /\ Detached /\ \E stored \in StoredArrays : Mounted(stored)

CanAct == ~crashed /\ run.ops < MaxOps

\* realtimeCollab.broadcastElement*: emits only if (isConnected && socket)
Broadcast(ev, id) == IF isConnected THEN Append(sent, [ev |-> ev, id |-> id]) ELSE sent

\* the hook joined the board and set isConnected; the page's effect then
\* subscribes its listeners, which close over this render's recordHistory
Subscribe ==
  /\ CanAct
  /\ ~isConnected
  /\ isConnected' = TRUE
  /\ listenerIndex' = historyIndex
  /\ sent' = Append(sent, [ev |-> "join-board", id |-> 0])
  /\ act' = [name |-> "subscribe", id |-> 0, els |-> <<>>, rec |-> FALSE]
  /\ run' = [run EXCEPT !.ops = @ + 1]
  /\ UNCHANGED <<pageElements, history, historyIndex, crashed, Server, Wire, Elsewhere>>

\* a handler of the current render set the elements and called recordHistory(els)
Commit(name, id, newElements, els, emitted) ==
  LET r == RecordHistory(history, historyIndex, historyIndex, els)
  IN /\ pageElements' = newElements
     /\ history' = r.history
     /\ historyIndex' = r.historyIndex
     /\ sent' = emitted
     /\ act' = [name |-> name, id |-> id, els |-> els, rec |-> TRUE]
     /\ run' = Edited(run, newElements)
     /\ UNCHANGED <<isConnected, listenerIndex, crashed, Server, Wire, Elsewhere>>

\* addElement: newId is Date.now()
AddElement(newId) ==
  /\ CanAct
  /\ Len(pageElements) < MaxPage
  /\ newId \notin PageIds(pageElements)
  /\ LET newElements == Append(pageElements, NewPageElement(newId))
     IN Commit("addElement", newId, newElements, newElements, Broadcast("element-create", newId))

\* deleteElementById, from the context menu of an element
DeleteElementById(id) ==
  /\ CanAct
  /\ id \in PageIds(pageElements) \cap ElemIds
  /\ LET newElements == SelectSeq(pageElements, LAMBDA e : IdOf(e) # id)
     IN Commit("deleteElementById", id, newElements, newElements, Broadcast("element-delete", id))

\* the stroke colour button, for the selected element
SetStrokeColor(id, col) ==
  /\ CanAct
  /\ id \in PageIds(pageElements) \cap ElemIds
  /\ LET updated == [i \in 1..Len(pageElements) |->
                       IF IdOf(pageElements[i]) = id
                       THEN Merge(pageElements[i], [val |-> col])
                       ELSE pageElements[i]]
     IN Commit("setStrokeColor", id, updated, updated, sent)

\* duplicateElement: the clone is appended by an updater, and recordHistory
\* is called with the elements of the current render
DuplicateElement(id, newId) ==
  /\ CanAct
  /\ Len(pageElements) < MaxPage
  /\ id \in PageIds(pageElements) \cap ElemIds
  /\ newId \notin PageIds(pageElements)
  /\ LET el    == pageElements[CHOOSE i \in 1..Len(pageElements) :
                                 /\ IdOf(pageElements[i]) = id
                                 /\ \A j \in 1..(i - 1) : IdOf(pageElements[j]) # id]
         clone == Merge(Json(el), [id |-> newId])
     IN Commit("duplicateElement", newId, Append(pageElements, clone), pageElements, sent)

AfterRestoreSaved == Append(sent, [ev |-> "board-save", id |-> 0])

\* what undo and redo emit to the server: nothing
AfterRestore == sent

\* undo (Ctrl+Z, or the button while historyIndex > 0)
Undo ==
  /\ CanAct
  /\ IF historyIndex <= 0
     THEN /\ historyIndex' = 0
          /\ UNCHANGED <<pageElements, crashed>>
     ELSE IF historyIndex - 1 >= Len(history)
     THEN \* history[newIdx] is undefined: JSON.parse(undefined) throws in the updater
          /\ crashed' = TRUE
          /\ UNCHANGED <<pageElements, historyIndex>>
     ELSE /\ historyIndex' = historyIndex - 1
          /\ pageElements' = DeepCopy(history[historyIndex])
          /\ UNCHANGED crashed
  /\ sent' = AfterRestore
  /\ act' = [name |-> "undo", id |-> 0, els |-> <<>>, rec |-> FALSE]
  /\ run' = Undone(run)
  /\ UNCHANGED <<history, isConnected, listenerIndex, Server, Wire, Elsewhere>>

\* redo (Ctrl+Y, or the button while historyIndex < history.length - 1)
Redo ==
  /\ CanAct
  /\ IF historyIndex >= Len(history) - 1
     THEN UNCHANGED <<pageElements, historyIndex>>
     ELSE /\ historyIndex' = historyIndex + 1
          /\ pageElements' = DeepCopy(history[historyIndex + 2])
  /\ sent' = AfterRestore
  /\ act' = [name |-> "redo", id |-> 0, els |-> <<>>, rec |-> FALSE]
  /\ run' = Redone(run)
  /\ UNCHANGED <<history, isConnected, listenerIndex, crashed, Server, Wire, Elsewhere>>

\* a socket listener's updater returned newElements after calling the
\* recordHistory the listener closed over
Applied(name, data, newElements) ==
  LET r == RecordHistory(history, historyIndex, listenerIndex, newElements)
  IN /\ pageElements' = newElements
     /\ history' = r.history
     /\ historyIndex' = r.historyIndex
     /\ act' = [name |-> name, id |-> IdOf(data), els |-> newElements, rec |-> TRUE]
     /\ run' = Received(run)
     /\ UNCHANGED <<isConnected, listenerIndex, crashed, sent, Server, Wire, Elsewhere>>

\* handleElementCreate(element), called with the data of element-created
HandleElementCreate(element) ==
  /\ CanAct
  /\ isConnected
  /\ IF \E i \in 1..Len(pageElements) : IdOf(pageElements[i]) = IdOf(element)
     THEN /\ act' = [name |-> "handleElementCreate", id |-> IdOf(element), els |-> <<>>,
                      rec |-> FALSE]
          /\ run' = Received(run)
          /\ UNCHANGED <<pageElements, history, historyIndex, isConnected, listenerIndex,
                         crashed, sent, Server, Wire, Elsewhere>>
     ELSE /\ Len(pageElements) < MaxPage
          /\ Applied("handleElementCreate", element, Append(pageElements, element))

\* handleElementUpdate(updatedElement), called with the data of element-updated
HandleElementUpdate(updatedElement) ==
  /\ CanAct
  /\ isConnected
  /\ Applied("handleElementUpdate", updatedElement,
             [i \in 1..Len(pageElements) |->
                IF IdOf(pageElements[i]) = IdOf(updatedElement)
                THEN Merge(pageElements[i], updatedElement)
                ELSE pageElements[i]])

\* handleElementDelete(elementId), called with the data of element-deleted
HandleElementDelete(elementId) ==
  /\ CanAct
  /\ isConnected
  /\ Applied("handleElementDelete", elementId,
             SelectSeq(pageElements, LAMBDA e : ~StrictEquals(IdOf(e), elementId)))

NextPage ==
  \/ Subscribe
  \/ \E i \in ElemIds : AddElement(i)
  \/ \E i \in ElemIds : DeleteElementById(i)
  \/ \E i \in ElemIds, col \in Vals : SetStrokeColor(i, col)
  \/ \E i, j \in ElemIds : DuplicateElement(i, j)
  \/ Undo
  \/ Redo
  \/ \E data \in CreatedPayloads : HandleElementCreate(data)
  \/ \E data \in UpdatedPayloads : HandleElementUpdate(data)
  \/ \E data \in DeletedPayloads : HandleElementDelete(data)

SpecPage == InitPage /\ [][NextPage]_vars

(* ======================================================================= *)
(*                 Cursor, tool and drawing events (server)                *)
(* ======================================================================= *)
\* the registry of Joined(boardId), with c2 (a second tab of u1) connected
\* before c1 and never joined
JoinedBeside(boardId) ==
  /\ connected = {"c1", "c2", "c3"}
  /\ closed = {}
  /\ activeUsers = [u \in Users |->
        [present |-> TRUE, socketId |-> IF u = "u1" THEN "c1" ELSE "c3",
         currentBoard |-> boardId, role |-> HasAccess(boards[boardId], u).role]]
  /\ boardRooms = [b \in {boardId} |-> Users]
  /\ rooms = [c \in Conns |-> IF c = "c2" THEN {} ELSE {boardId}]
  /\ member = [c \in Conns |-> IF c = "c2" THEN None ELSE boardId]

InitCur ==
  /\ boards = InitialBoards
  /\ \E b \in {"B1", "B2"} : Joined(b) \/ JoinedBeside(b)
  /\ pend = [c \in Conns |-> Idle]
  /\ nMut = 0
  /\ nSaved = [b \in {"B1", "B2"} |-> 0]
  /\ last = Step("init", None, None, "done")
  /\ out = <<>>
  /\ Quiet
  /\ Unmounted
  /\ Detached

\* time passes: Date.now() does not decrease
Tick ==
  /\ now < MaxNow
  /\ now' = now + 1
  /\ UNCHANGED <<Server, delivered, Page, Elsewhere>>

TimestampOfClient(x, clock) == x

\* timestamp: Date.now()
Timestamp(x, clock) == clock

\* The handlers of cursor-move, tool-change, drawing-start and drawing-end:
\* return unless the sender's entry names the board, else emit to the others
\* of the room. The cursor-moved events written to each socket are kept in
\* the order written, which is the order the socket delivers them in.
Relay(s, ev, boardId, emitted, x) ==
  /\ s \in connected
  /\ nMut < MaxEvents
  /\ nMut' = nMut + 1
  /\ IF CurrentBoard(UserOf[s]) # boardId
     THEN /\ out' = <<>>
          /\ last' = Step(ev, s, boardId, "not-in-board")
          /\ UNCHANGED delivered
     ELSE /\ out' = <<Emit(SocketTo(rooms, s, boardId), emitted,
                           [userId |-> UserOf[s], x |-> x, timestamp |-> Timestamp(x, now)])>>
          /\ last' = Step(ev, s, boardId, "done")
          /\ delivered' =
               [c \in Conns |->
                  IF emitted = "cursor-moved" /\ c \in SocketTo(rooms, s, boardId)
                  THEN Append(delivered[c], [from |-> s, boardId |-> boardId,
                                             timestamp |-> Timestamp(x, now)])
                  ELSE delivered[c]]
  /\ UNCHANGED <<connected, closed, activeUsers, boardRooms, rooms, boards, pend, member,
                 nSaved, now, Page, Elsewhere>>

CursorMove(s, boardId, x) == Relay(s, "cursor-move", boardId, "cursor-moved", x)
ToolChange(s, boardId) == Relay(s, "tool-change", boardId, "user-tool-changed", 0)
DrawingStart(s, boardId) == Relay(s, "drawing-start", boardId, "user-drawing-start", 0)
DrawingEnd(s, boardId) == Relay(s, "drawing-end", boardId, "user-drawing-end", 0)

NextCur ==
  \/ Tick
  \/ \E s \in Conns, b \in BoardIds, x \in Vals : CursorMove(s, b, x)
  \/ \E s \in Conns, b \in BoardIds : ToolChange(s, b)
  \/ \E s \in Conns, b \in BoardIds : DrawingStart(s, b)
  \/ \E s \in Conns, b \in BoardIds : DrawingEnd(s, b)
  \/ \E s \in Conns : Connect(s)
  \/ \E s \in Conns : Disconnect(s)

SpecCur == InitCur /\ [][NextCur]_vars

(* ======================================================================= *)
(*                      Properties of the presence registry                *)
(* ======================================================================= *)
Members(b) == {c \in Conns : member[c] = b}

\* the sockets named by the user list the server computes for board b
ListedSockets(b) ==
  IF b \in DOMAIN boardRooms
  THEN {e.socketId : e \in UsersInBoard(boardRooms, activeUsers, b)}
  ELSE {}

\* C1: presence invariant. The user list computed for a board names exactly
\* the connections whose join-board for it succeeded and that have not since
\* left it or disconnected.
C1_PresenceList == \A b \in BoardIds : ListedSockets(b) = Members(b)

\* C6: one active room per connection. After a successful join-board the
\* joining connection is in the socket room of the joined board only, and its
\* user is tracked in no other board's member set (unless another connection
\* of the same user is a member there).
C6_OneRoomPerConnection ==
  (last.ev = "join-board" /\ last.stage = "joined" /\ last.conn \in connected) =>
    /\ rooms[last.conn] = {last.boardId}
    /\ \A b \in DOMAIN boardRooms \ {last.boardId} :
         UserOf[last.conn] \in boardRooms[b] =>
           \E c \in Members(b) \ {last.conn} : UserOf[c] = UserOf[last.conn]

\* C7: on a successful join-board of a connected socket: user-joined goes to
\* every other member of the board and not to the joiner; board-joined goes to
\* the joiner with a user list that includes the joiner's user; and, after
\* user-joined, active-users-updated goes to every member, the joiner
\* included, with the same list.
C7_JoinNotifications ==
  (last.ev = "join-board" /\ last.stage = "joined" /\ last.conn \in connected) =>
    LET s == last.conn
        others == Members(last.boardId) \ {s}
    IN /\ \A m \in DOMAIN out : out[m].ev = "user-joined" => s \notin out[m].to
       /\ \E i, j, k \in DOMAIN out :
            /\ out[i].ev = "user-joined" /\ others \subseteq out[i].to
            /\ out[j].ev = "board-joined" /\ out[j].to = {s}
            /\ UserOf[s] \in {e.userId : e \in out[j].arg}
            /\ out[k].ev = "active-users-updated" /\ i < k
            /\ others \cup {s} \subseteq out[k].to
            /\ out[k].arg = out[j].arg

\* C7 witness: a join into a board that already has another member.
C7_Witness ==
  /\ last.ev = "join-board" /\ last.stage = "joined" /\ last.conn \in connected
  /\ Members(last.boardId) \ {last.conn} # {}
  /\ Len(out) = 3

\* C8: when a connection leaves its board by leave-board or disconnect, its
\* user is removed from the board's tracked member set, every remaining member
\* receives user-left and an active-users-updated list without it, and the room
\* map holds no board whose members have all left.
C8_LeaveCleansUp ==
  [][ (last'.ev \in {"leave-board", "disconnect"} /\ member[last'.conn] # None) =>
        LET s == last'.conn
            b == member[s]
            remaining == {c \in Conns \ {s} : member'[c] = b}
        IN /\ b \in DOMAIN boardRooms' => UserOf[s] \notin boardRooms'[b]
           /\ remaining # {} =>
                /\ \E i \in DOMAIN out' :
                     out'[i].ev = "user-left" /\ remaining \subseteq out'[i].to
                /\ \E i \in DOMAIN out' :
                     /\ out'[i].ev = "active-users-updated"
                     /\ remaining \subseteq out'[i].to
                     /\ \A e \in out'[i].arg : e.socketId # s
           /\ \A x \in DOMAIN boardRooms' : \E c \in Conns : member'[c] = x
    ]_vars


(* ======================================================================= *)
(*                     Properties of the mutation handlers                 *)
(* ======================================================================= *)
\* the board document grants the socket's user the viewer role
IsViewer(c, b) ==
  /\ b \in DOMAIN boards
  /\ boards[b].owner # UserOf[c]
  /\ boards[b].collaborators[UserOf[c]] = "viewer"

\* the board document makes the socket's user its owner or an editor
IsEditor(c, b) ==
  /\ b \in DOMAIN boards
  /\ boards[b].owner = UserOf[c] \/ boards[b].collaborators[UserOf[c]] = "editor"

Ids(elements) == {elements[i].id : i \in 1..Len(elements)}

\* the step just taken (to the primed state) ran socket s's handler past an await
Resumed(s) == pend[s].pc # "idle" /\ pend'[s] # pend[s]

IsMutation(p) ==
  \/ p.ev \in {"element-create", "element-update", "element-delete", "board-save"}
  \/ p.ev = "canvas-update" /\ p.action \in {"add", "update", "delete", "batch"}

AccessDenied == {"No edit permission", "No edit permission for this board"}

\* C2: access invariant. Every mutation a joined viewer sends is answered
\* with an access-denied error to that connection, and the board's stored
\* elements and version stay as they were.
C2_ViewerDenied ==
  [][ \A s \in Conns :
        (Resumed(s) /\ IsMutation(pend[s]) /\ IsViewer(s, pend[s].boardId)) =>
          /\ Len(out') = 1
          /\ out'[1].ev = "error" /\ out'[1].arg \in AccessDenied
          /\ out'[1].to = {s} \cap connected
          /\ boards' = boards
    ]_vars

\* C3: a joined viewer's element-create, element-update or element-delete
\* emits exactly one event, error 'No edit permission', to that viewer alone.
C3_ViewerElementEvents ==
  (/\ last.ev \in {"element-create", "element-update", "element-delete"}
   /\ last.stage \notin {"received", "not-in-board"}
   /\ IsViewer(last.conn, last.boardId)) =>
     /\ last.stage = "error"
     /\ Len(out) = 1
     /\ out[1].ev = "error" /\ out[1].arg = "No edit permission"
     /\ out[1].to = {last.conn} \cap connected

\* C3 witness: a viewer is refused while a peer is in the room.
C3_Witness ==
  /\ last.ev = "element-create" /\ last.stage = "error"
  /\ IsViewer(last.conn, last.boardId)
  /\ last.conn \in connected
  /\ IoTo(rooms, last.boardId) \ {last.conn} # {}
  /\ Len(out) = 1

IsDelete(p) ==
  p.ev = "element-delete" \/ (p.ev = "canvas-update" /\ p.action = "delete")

IsUpdate(p) ==
  p.ev = "element-update" \/ (p.ev = "canvas-update" /\ p.action = "update")

C5_UpdateMissingRejected ==
  [][ \A s \in Conns :
        (/\ Resumed(s) /\ pend[s].pc = "find" /\ IsUpdate(pend[s])
         /\ IsEditor(s, pend[s].boardId)
         /\ pend[s].element.id \notin Ids(boards[pend[s].boardId].elements)) =>
          /\ out' = <<Emit({s} \cap connected, "error", "Element not found")>>
          /\ boards' = boards
    ]_vars

\* C9: a saved element-create appends the element as the last item of the
\* stored list with createdBy set to the sender, leaves the items already
\* stored as they were, and sends element-created carrying that element to
\* every other member of the board; an owner or editor is never refused.
C9_ElementCreateAppends ==
  [][ \A s \in Conns :
        LET p == pend[s]
            b == p.boardId
            old == boards[b].elements
            new == boards'[b].elements
        IN /\ (Resumed(s) /\ p.ev = "element-create" /\ last'.stage = "saved") =>
                /\ Len(new) = Len(old) + 1
                /\ SubSeq(new, 1, Len(old)) = old
                /\ new[Len(new)].id = p.element.id
                /\ new[Len(new)].val = p.element.val
                /\ new[Len(new)].createdBy = UserOf[s]
                /\ \E i \in DOMAIN out' :
                     /\ out'[i].ev = "element-created"
                     /\ out'[i].arg = new[Len(new)]
                     /\ Members(b) \ {s} \subseteq out'[i].to
           /\ (Resumed(s) /\ p.ev = "element-create" /\ p.pc = "find" /\ IsEditor(s, b)) =>
                pend'[s].pc = "save"
    ]_vars

\* C9 witness: an element was appended behind a stored one and a peer was told.
C9_Witness ==
  /\ last.ev = "element-create" /\ last.stage = "saved"
  /\ Len(boards[last.boardId].elements) >= 2
  /\ Members(last.boardId) \ {last.conn} # {}
  /\ \E i \in DOMAIN out : out[i].ev = "element-created" /\ out[i].to \ {last.conn} # {}

\* C10: every successful mutation raises the stored version by one, so the
\* version is its initial value plus the number of mutations saved.
C10_VersionCountsMutations ==
  \A b \in DOMAIN boards : boards[b].version = InitialBoards[b].version + nSaved[b]

\* the handlers that change one element of the stored list
IsElementMutation(p) ==
  \/ p.ev \in {"element-create", "element-update", "element-delete"}
  \/ p.ev = "canvas-update" /\ p.action \in {"add", "update", "delete"}

\* C11: concurrent edits to different elements are safe. When a handler that
\* changes one element saves, every stored element with another id, as last
\* written by any other handler, is still stored: the write discards no other
\* handler's write.
C11_DifferentElementsSafe ==
  [][ \A s \in Conns :
        LET p == pend[s]
            old == boards[p.boardId].elements
            new == boards'[p.boardId].elements
        IN (/\ Resumed(s) /\ p.pc = "save" /\ IsElementMutation(p)
            /\ last'.stage = "saved") =>
             \A i \in 1..Len(old) :
               old[i].id # p.element.id => \E j \in 1..Len(new) : new[j] = old[i]
    ]_vars

(* ======================================================================= *)
(*                       Properties of the canvas page                     *)
(* ======================================================================= *)
\* the step to the primed state ran one handler of the page
PageStep == run'.ops = run.ops + 1

\* two element arrays hold the same elements with the same defined properties
Same(a, b) == DeepCopy(a) = DeepCopy(b)

\* C12: undo/redo round trip. After N recorded local mutations, N undos
\* restore the element array the canvas had when editing began, and N redos
\* after them restore the array as it was after the last mutation.
C12_UndoRedoRoundTrip ==
  /\ (run.phase = "undo" /\ run.nRec >= 1 /\ run.nUndo = run.nRec) =>
       Same(pageElements, run.initial)
  /\ (run.phase = "redo" /\ run.nRec >= 1 /\ run.nRedo = run.nRec) =>
       Same(pageElements, run.final)

\* C13: recordHistory called while the pointer is below the newest snapshot
\* discards the snapshots after the pointer and no others, appends a deep
\* copy of the given elements and leaves the pointer on it; after any
\* recordHistory the pointer is on the newest snapshot, so redo changes
\* nothing.
C13_RecordDiscardsFuture ==
  [][ (PageStep /\ act'.rec) =>
        /\ historyIndex < Len(history) - 1 =>
             history' = Append(SubSeq(history, 1, historyIndex + 1), DeepCopy(act'.els))
        /\ historyIndex' >= Len(history') - 1
        /\ historyIndex < Len(history) - 1 => historyIndex' = Len(history') - 1
    ]_vars

\* C14: after a recordHistory call the history holds at most 50 snapshots,
\* its newest is the array just recorded, and the pointer selects it.
C14_HistoryBounded ==
  act.rec =>
    /\ Len(history) <= HistoryLimit
    /\ history # <<>>
    /\ history[Len(history)] = DeepCopy(act.els)
    /\ historyIndex = Len(history) - 1

\* C15: undo at the oldest snapshot or on an empty history, and redo at the
\* newest snapshot, change neither the pointer nor the element array; in
\* every other state they move the pointer by one and replace the element
\* array by a copy of the snapshot at the new pointer.
C15_UndoRedoClamped ==
  [][ /\ (PageStep /\ act'.name = "undo") =>
           IF historyIndex <= 0 \/ history = <<>>
           THEN historyIndex' = historyIndex /\ pageElements' = pageElements
           ELSE /\ historyIndex' = historyIndex - 1
                /\ historyIndex' + 1 \in DOMAIN history
                /\ pageElements' = DeepCopy(history[historyIndex' + 1])
      /\ (PageStep /\ act'.name = "redo") =>
           IF historyIndex = Len(history) - 1
           THEN historyIndex' = historyIndex /\ pageElements' = pageElements
           ELSE /\ historyIndex' = historyIndex + 1
                /\ historyIndex' + 1 \in DOMAIN history
                /\ pageElements' = DeepCopy(history[historyIndex' + 1])
    ]_vars

\* C16: undo and redo are local only: they emit nothing to the server, so
\* the stored boards are unchanged by them.
C16_UndoRedoLocal ==
  [][ (PageStep /\ act'.name \in {"undo", "redo"}) => (sent' = sent /\ boards' = boards) ]_vars

\* C16 witness: a connected page, whose earlier edit was sent to the server,
\* has just restored another snapshot by undo.
C16_Witness ==
  /\ act.name = "undo"
  /\ isConnected
  /\ \E i \in DOMAIN sent : sent[i].ev = "element-create"
  /\ historyIndex + 1 \in DOMAIN history
  /\ historyIndex < Len(history) - 1
  /\ pageElements = history[historyIndex + 1]
  /\ ~Same(pageElements, history[Len(history)])

\* C17: an inbound element-created whose element id is already in the local
\* store leaves the store unchanged, so the creator of an element holds it
\* once after the server's element-created for it arrived.
C17_CreatedIsIdempotent ==
  [][ \A data \in CreatedPayloads :
        (/\ PageStep /\ act'.name = "handleElementCreate"
         /\ data.element.id \in PageIds(pageElements)
         /\ HandleElementCreate(data)) =>
          pageElements' = pageElements
    ]_vars

\* C18: an inbound element-deleted for id i leaves the local store with no
\* element of id i and every other element as it was; applying it a second
\* time changes nothing more.
C18_DeletedRemoves ==
  [][ \A data \in DeletedPayloads :
        (PageStep /\ act'.name = "handleElementDelete" /\ HandleElementDelete(data)) =>
          /\ data.elementId \notin PageIds(pageElements')
          /\ pageElements' = SelectSeq(pageElements, LAMBDA e : IdOf(e) # data.elementId)
    ]_vars

(* ======================================================================= *)
(*               Properties of cursor, tool and drawing events             *)
(* ======================================================================= *)
\* C19: the cursor-moved events delivered to one peer from one sender on one
\* board carry non-decreasing timestamps in the order they are delivered.
C19_CursorTimestampsOrdered ==
  \A c \in Conns : \A i, j \in DOMAIN delivered[c] :
    (/\ i < j
     /\ delivered[c][i].from = delivered[c][j].from
     /\ delivered[c][i].boardId = delivered[c][j].boardId) =>
      delivered[c][i].timestamp <= delivered[c][j].timestamp

\* C19 witness: a peer was sent two cursor moves of one sender at different
\* times, the second carrying the smaller position.
C19_Witness ==
  /\ last.ev = "cursor-move" /\ last.stage = "done"
  /\ \E c \in Conns : \E i, j \in DOMAIN delivered[c] :
       /\ i < j
       /\ delivered[c][i].from = delivered[c][j].from
       /\ delivered[c][i].boardId = delivered[c][j].boardId
       /\ delivered[c][i].timestamp < delivered[c][j].timestamp
  /\ Len(out) = 1 /\ out[1].arg.x = 0 /\ out[1].to # {}

BoardScoped ==
  {"cursor-move", "tool-change", "drawing-start", "drawing-end", "canvas-update",
   "board-save", "element-create", "element-update", "element-delete"}

\* C20: an event naming a board its sender is not a member of is answered
\* with error 'Not in this board' to the sender alone and reaches no one
\* else.
C20_NotInBoardRejected ==
  (/\ last.ev \in BoardScoped
   /\ last.conn \in connected
   /\ member[last.conn] # last.boardId) =>
     /\ last.stage = "not-in-board"
     /\ out = <<Emit({last.conn}, "error", "Not in this board")>>

(* ======================================================================= *)
(*                          Properties of error events                     *)
(* ======================================================================= *)
\* C21: no error event is delivered to a connection other than the one whose
\* inbound event caused it, whatever the error (not in board, board not found,
\* no permission, element not found, failed save).
C21_ErrorsToOriginOnly ==
  \A i \in DOMAIN out : out[i].ev = "error" => out[i].to \subseteq {last.conn}

\* C21 witness: an update of an element that is not stored is refused while a
\* peer is in the board's room, and the error went to the sender.
C21_Witness ==
  /\ last.ev = "element-update" /\ last.stage = "error"
  /\ IsEditor(last.conn, last.boardId)
  /\ IoTo(rooms, last.boardId) \ {last.conn} # {}
  /\ out = <<Emit({last.conn}, "error", "Element not found")>>

\* the events by which a mutation is announced
MutationBroadcasts ==
  {"canvas-updated", "canvas-update-confirmed", "board-saved", "element-created",
   "element-updated", "element-deleted"}

\* C22: when save() fails in a mutation handler the sender alone is sent one
\* error, nothing announces the mutation, the stored board is as it was, and
\* the handler ends leaving every other handler as it was; no step of a
\* mutation handler changes the presence map, the room map or the socket
\* rooms, so they are as they were when the event arrived.
C22_FailedSaveContained ==
  [][ \A s \in Conns :
        /\ (Resumed(s) /\ IsMutation(pend[s])) =>
             /\ activeUsers' = activeUsers
             /\ boardRooms' = boardRooms
             /\ rooms' = rooms
             /\ connected' = connected
        /\ (Resumed(s) /\ IsMutation(pend[s]) /\ pend[s].pc = "save" /\ last'.stage = "failed") =>
             /\ Len(out') = 1
             /\ out'[1].ev = "error"
             /\ out'[1].to = {s} \cap connected
             /\ \A i \in DOMAIN out' : out'[i].ev \notin MutationBroadcasts
             /\ boards' = boards
             /\ pend'[s] = Idle
             /\ \A c \in Conns \ {s} : pend'[c] = pend[c]
    ]_vars

\* C22 witness: a save failed while a peer was in the room; the sender alone
\* was told, its handler ended, and the server can still receive an event.
C22_Witness ==
  /\ last.stage = "failed"
  /\ last.conn \in connected
  /\ IoTo(rooms, last.boardId) \ {last.conn} # {}
  /\ Len(out) = 1 /\ out[1].ev = "error" /\ out[1].to = {last.conn}
  /\ pend[last.conn] = Idle
  /\ nMut < MaxMutations

(* ======================================================================= *)
(*        One browser tab: socketService and useRealtimeCollaboration      *)
(* ======================================================================= *)
\* reconnectionAttempts: 5
ReconnectionAttempts == 5

\* the sockets the tab of user u1 gets: c1 first, c2 when it reconnects
TabSockets == {"c1", "c2"}

\* The hook's effect ran for boardId: socketService.connect(token) created the
\* socket, and the first attemptJoin found it not yet connected and set the
\* 200 ms timer. link is the state of the socket.io Manager (connecting, up,
\* or down once it gave up); svc is socketService.isConnected, board is
\* socketService.currentBoard, hook is the hook's isConnected, wire holds the
\* events emitted and not yet received by the server. History: joined is the
\* board the server last joined the tab to, lost whether a connection was
\* lost, resent whether join-board was emitted after that.
Opened(boardId) ==
  client = [NoClient EXCEPT !.page = boardId, !.link = "connecting", !.timer = TRUE]

InitRe ==
  Fresh /\ Quiet /\ Unmounted /\ overlay = NoOverlay /\ Still /\ \E b \in {"B1", "B2"} : Opened(b)

\* the transport connected: the server's 'connection' handler runs for a new
\* socket, and the client's 'connect' listener sets isConnected
ClientConnect(s) ==
  /\ client.link = "connecting"
  /\ s = IF "c1" \in connected \cup closed THEN "c2" ELSE "c1"
  /\ OnConnection(s)
  /\ client' = [client EXCEPT !.link = "up", !.sock = s, !.svc = TRUE, !.attempts = 0]
  /\ UNCHANGED ExceptClient

\* a connection attempt failed: connect_error; the Manager tries again until
\* reconnectionAttempts is used up
ConnectError ==
  /\ client.link = "connecting"
  /\ client' = [client EXCEPT !.svc = FALSE,
                              !.attempts = @ + 1,
                              !.link = IF client.attempts + 1 >= ReconnectionAttempts
                                       THEN "down" ELSE "connecting"]
  /\ UNCHANGED <<Server, Page, Wire, ExceptClient>>

\* attemptJoin, run by its timer: join when the socket is connected, else try
\* again in 200 ms unless 3 s have passed since the first try (late)
AttemptJoin(late) ==
  /\ client.timer
  /\ IF client.svc
     THEN client' = [client EXCEPT !.board = client.page,
                                   !.wire = Append(@, [ev |-> "join-board", sock |-> client.sock,
                                                       boardId |-> client.page]),
                                   !.hook = TRUE,
                                   !.timer = FALSE,
                                   !.resent = client.lost]
     ELSE client' = [client EXCEPT !.timer = ~late]
  /\ UNCHANGED <<Server, Page, Wire, ExceptClient>>

\* the client's 'disconnect' listener: the transport is lost, what was in
\* flight is lost with it, and the Manager starts to reconnect
ClientDisconnect ==
  /\ client.link = "up"
  /\ client' = [client EXCEPT !.link = "connecting", !.sock = None, !.svc = FALSE,
                              !.wire = <<>>, !.lost = TRUE]
  /\ UNCHANGED <<Server, Page, Wire, ExceptClient>>

\* the server receives the tab's next event
ServerReceive ==
  /\ client.wire # <<>>
  /\ LET m == Head(client.wire)
     IN /\ m.ev = "join-board"
        /\ OnJoinBoard(m.sock, m.boardId)
  /\ client' = [client EXCEPT !.wire = Tail(@)]
  /\ UNCHANGED ExceptClient

\* join-board resumes after findById; board-joined tells the tab it is in
ServerJoin(s) ==
  /\ OnJoinBoardFound(s)
  /\ client' = IF s = client.sock /\ last'.stage = "joined"
               THEN [client EXCEPT !.joined = last'.boardId]
               ELSE client
  /\ UNCHANGED ExceptClient

\* the server notices that a socket of the tab is gone
ServerDisconnect(s) ==
  /\ s \in TabSockets
  /\ s # client.sock
  /\ Disconnect(s)

\* the peer c3 comes, joins, leaves and goes as it likes
Peer ==
  \/ Connect("c3")
  \/ \E b \in BoardIds : JoinBoard("c3", b)
  \/ LeaveBoard("c3")
  \/ Disconnect("c3")

NextRe ==
  \/ \E s \in TabSockets : ClientConnect(s)
  \/ ConnectError
  \/ \E late \in BOOLEAN : AttemptJoin(late)
  \/ ClientDisconnect
  \/ ServerReceive
  \/ \E s \in Conns : ServerJoin(s)
  \/ \E s \in TabSockets : ServerDisconnect(s)
  \/ Peer

\* timers fire and the server handles what it received
SpecRe ==
  /\ InitRe
  /\ [][NextRe]_vars
  /\ WF_vars(\E late \in BOOLEAN : AttemptJoin(late))
  /\ WF_vars(ServerReceive)
  /\ WF_vars(\E s \in Conns : ServerJoin(s))

(* ======================================================================= *)
(*                         Properties of the browser tab                   *)
(* ======================================================================= *)
\* the tab was joined to a board, lost its connection and has a new one
Reestablished == client.lost /\ client.joined # None /\ client.link = "up"

\* C23: after a client that had joined board B lost its connection and the
\* connection was re-established, the client eventually sends join-board for B
\* again (unless that connection is lost too).
C23_RejoinsAfterReconnect ==
  Reestablished ~> (client.resent \/ client.link # "up")

(* ======================================================================= *)
(*              The cursor overlay of useRealtimeCollaboration             *)
(* ======================================================================= *)
\* setTimeout(..., 5000), in seconds
CursorTimeout == 5

InitOv == Fresh /\ Quiet /\ Unmounted /\ client = NoClient /\ overlay = NoOverlay /\ Still

\* the 'cursor-moved' listener, called with the data of peer p. Its guard
\* userId === socketService.getSocketId() compares a user id with a socket
\* id and never holds.
CursorMoved(p) ==
  /\ overlay.moves < MaxMoves
  /\ LET id    == overlay.next
         kept  == {t \in overlay.timers : t.id # overlay.ref[p]}   \* clearTimeout
     IN overlay' = [overlay EXCEPT
                      !.cursors[p] = overlay.clock,
                      !.timers = kept \cup {[id |-> id, peer |-> p,
                                             due |-> overlay.clock + CursorTimeout]},
                      !.ref[p] = id,
                      !.next = id + 1,
                      !.did = "cursor-moved",
                      !.moves = @ + 1]
  /\ UNCHANGED <<Server, Page, Wire, ExceptOverlay>>

\* the callback of a timeout that is due
CursorExpired(t) ==
  /\ t \in overlay.timers
  /\ t.due <= overlay.clock
  /\ overlay' = [overlay EXCEPT !.cursors[t.peer] = Undefined,
                                !.ref[t.peer] = 0,
                                !.timers = @ \ {t},
                                !.did = "timeout"]
  /\ UNCHANGED <<Server, Page, Wire, ExceptOverlay>>

\* the 'user-left' listener removes the user's cursor
UserLeft(p) ==
  /\ overlay' = [overlay EXCEPT !.cursors[p] = Undefined, !.did = "user-left"]
  /\ UNCHANGED <<Server, Page, Wire, ExceptOverlay>>

\* the effect runs again because user (or boardId) changed: its cleanup calls
\* cleanupEventListeners, which clears every timeout and the ref map, and the
\* new run sets the listeners up again; the state cursors is kept
EffectRerun ==
  /\ overlay.did # "cleanup"
  /\ overlay' = [overlay EXCEPT !.timers = {},
                                !.ref = [u \in Users |-> 0],
                                !.did = "cleanup"]
  /\ UNCHANGED <<Server, Page, Wire, ExceptOverlay>>

\* a second passes; a timeout that is due runs first
TickOv ==
  /\ overlay.clock < MaxClock
  /\ \A t \in overlay.timers : t.due > overlay.clock
  /\ overlay' = [overlay EXCEPT !.clock = @ + 1, !.did = "tick"]
  /\ UNCHANGED <<Server, Page, Wire, ExceptOverlay>>

NextOv ==
  \/ \E p \in Users : CursorMoved(p)
  \/ \E t \in overlay.timers : CursorExpired(t)
  \/ \E p \in Users : UserLeft(p)
  \/ EffectRerun
  \/ TickOv

SpecOv == InitOv /\ [][NextOv]_vars

(* ======================================================================= *)
(*                       Properties of the cursor overlay                  *)
(* ======================================================================= *)
\* C24: a peer's entry in the overlay is removed 5 seconds after the last
\* cursor-moved received from the peer: while the entry is there a timeout for
\* the peer is pending, due 5 seconds after that event (every cursor-moved
\* restarts it), and no entry is older than that; at most one timeout is
\* pending per peer.
C24_CursorExpires ==
  \A p \in Users :
    /\ Cardinality({t \in overlay.timers : t.peer = p}) <= 1
    /\ overlay.cursors[p] # Undefined =>
         /\ \E t \in overlay.timers :
              t.peer = p /\ t.due = overlay.cursors[p] + CursorTimeout
         /\ overlay.clock <= overlay.cursors[p] + CursorTimeout

(* ======================================================================= *)
(*                      Properties of the stored elements                  *)
(* ======================================================================= *)
\* C25: element ids are unique per board: no two elements of a board's stored
\* element list have the same id.
C25_ElementIdsUnique ==
  \A b \in DOMAIN boards :
    \A i, j \in 1..Len(boards[b].elements) :
      i # j => boards[b].elements[i].id # boards[b].elements[j].id

(* ======================================================================= *)
(*                   join-board for a board that is closed                 *)
(* ======================================================================= *)
\* The collection when B1 was created by u1 and shared with nobody (the
\* schema's defaults: no collaborators, isPublic false); B2 as before.
PrivateBoards ==
  [InitialBoards EXCEPT !["B1"].collaborators = [u \in Users |-> None]]

InitJoin ==
  /\ connected = {}
  /\ closed = {}
  /\ activeUsers = [u \in Users |-> NoEntry]
  /\ boardRooms = <<>>
  /\ rooms = [c \in Conns |-> {}]
  /\ boards = PrivateBoards
  /\ pend = [c \in Conns |-> Idle]
  /\ member = [c \in Conns |-> None]
  /\ nMut = 0
  /\ nSaved = [b \in {"B1", "B2"} |-> 0]
  /\ last = Step("init", None, None, "done")
  /\ out = <<>>
  /\ Quiet
  /\ Unmounted
  /\ Detached

SpecJoin == InitJoin /\ [][Next]_vars

\* the board does not exist, or the user is not its owner, not one of its
\* collaborators, and the board is not public
Refused(boardId, userId) ==
  \/ boardId \notin DOMAIN boards
  \/ /\ boards[boardId].owner # userId
     /\ boards[boardId].collaborators[userId] = None
     /\ ~boards[boardId].isPublic

\* C26: a join-board for a board that does not exist, or that the user has no
\* access to, is answered with one error written to the caller only, and it
\* changes neither any user's current board, nor any board's member set, nor
\* any socket's rooms: no peer is notified.
C26_RefusedJoinChangesNothing ==
  [][\A s \in Conns :
       (/\ pend[s].ev = "join-board"
        /\ pend[s].pc = "find"
        /\ pend'[s].pc = "idle"
        /\ Refused(pend[s].boardId, UserOf[s]))
       => /\ Len(out') = 1
          /\ out'[1].ev = "error"
          /\ out'[1].to = {s} \cap connected
          /\ activeUsers' = activeUsers
          /\ boardRooms' = boardRooms
          /\ rooms' = rooms
          /\ member' = member]_vars

\* C26 witness: u2, on board B2, asked to join B1, which u1 owns and is on and
\* which is closed to u2; the join was refused and u2 is still on B2.
C26_Witness ==
  /\ last.ev = "join-board"
  /\ last.stage = "error"
  /\ last.conn = "c3"
  /\ last.boardId = "B1"
  /\ Len(out) = 1
  /\ out[1].arg = "Access denied to board"
  /\ out[1].to = {"c3"}
  /\ member["c3"] = "B2"
  /\ CurrentBoard("u2") = "B2"
  /\ \E c \in {"c1", "c2"} : member[c] = "B1"

(* ======================================================================= *)
(*         Pointer gestures on the canvas page (CanvasPageFixed.jsx)       *)
(* ======================================================================= *)
\* An element is carried by its id and type; val stands for what a gesture
\* changes (x, y, width, height, x2, y2, text) and takes two values; points
\* is the number of retained points of a freehand element.
Tools == {"select", "line", "pen", "eraser"}

\* a text box loaded with the board
TextBox(id) == [id |-> id, type |-> "text", val |-> 0, isEditing |-> FALSE]

\* the page's state that no pointer handler writes
PageRest == <<isConnected, listenerIndex, crashed, act, run>>
ExceptPointer == <<client, overlay, shape>>

\* the board opened with one text box; the collaboration hook not yet connected
InitPtr ==
  /\ Fresh /\ Quiet
  /\ client = NoClient /\ overlay = NoOverlay /\ Still
  /\ Mounted(<<TextBox(1)>>)

CanPoint == ~crashed /\ pointer.ops < MaxInputs

\* history: the input just handled (did), the element it hit (target), the
\* gestures it ended (ended) and the number of inputs so far (ops)
Input(p, name) == [p EXCEPT !.did = name, !.target = 0, !.ended = {}, !.ops = @ + 1]

ElementById(els, id) == els[CHOOSE i \in 1..Len(els) : els[i].id = id]

\* element.isEditing (undefined for a drawn element)
IsEditing(el) == "isEditing" \in DOMAIN el /\ el.isEditing

\* prev.map(el => el.id !== id ? el : { ...el, <changed fields> })
Changed(els, id) ==
  [i \in 1..Len(els) |-> IF els[i].id = id THEN [els[i] EXCEPT !.val = 1 - @] ELSE els[i]]

\* Date.now(): later at every input, and later than the ids of the loaded
\* elements (1 and 2)
FreshId(p) == p.ops + 3
\* the ids an element of the page can have
PtrIds == 1..(MaxInputs + 2)

\* a toolbar button: setActiveTool
ToolButton(t) ==
  /\ CanPoint
  /\ ~pointer.held
  /\ pointer' = [Input(pointer, "tool") EXCEPT !.activeTool = t]
  /\ UNCHANGED <<pageElements, history, historyIndex, sent, PageRest, Server, Wire, ExceptPointer>>

\* startDrawingSurface, as a function of the interaction state and the elements
StartDrawingSurface(p, els) ==
  IF p.activeTool \notin {"line", "pen"} THEN [pointer |-> p, elements |-> els]
  ELSE LET id == FreshId(p)
           el == IF p.activeTool = "pen"
                 THEN [id |-> id, type |-> "freehand", val |-> 0, points |-> 1]
                 ELSE [id |-> id, type |-> "line", val |-> 0]
       IN [pointer |-> [p EXCEPT !.drawingTempId = id], elements |-> Append(els, el)]

\* mouse-down on an element: its onMouseDown runs handleMouseDown, and the
\* event bubbles to the container's onMouseDown, startDrawingSurface
ElementMouseDown(id) ==
  /\ CanPoint
  /\ ~pointer.held
  /\ id \in PageIds(pageElements)
  /\ pointer.activeTool \in {"select", "eraser"} \/ Len(pageElements) < MaxPage
  /\ LET el == ElementById(pageElements, id)
     IN IF pointer.activeTool = "eraser" /\ el.type = "freehand"
        THEN \* deleteElementById(element.id); return
             LET newElements == SelectSeq(pageElements, LAMBDA e : e.id # id)
                 h == RecordHistory(history, historyIndex, historyIndex, newElements)
             IN /\ pageElements' = newElements
                /\ history' = h.history
                /\ historyIndex' = h.historyIndex
                /\ sent' = IF isConnected
                           THEN Append(sent, [ev |-> "element-delete", id |-> id, val |-> 0])
                           ELSE sent
                /\ pointer' = [Input(pointer, "down") EXCEPT !.held = TRUE, !.target = id]
        ELSE LET p1 == IF pointer.activeTool = "select" /\ ~IsEditing(el)
                       THEN [pointer EXCEPT !.isDragging = TRUE, !.selectedElement = id]
                       ELSE pointer
                 r  == StartDrawingSurface(p1, pageElements)
             IN /\ pointer' = [Input(r.pointer, "down") EXCEPT !.held = TRUE, !.target = id]
                /\ pageElements' = r.elements
                /\ UNCHANGED <<history, historyIndex, sent>>
  /\ UNCHANGED <<PageRest, Server, Wire, ExceptPointer>>

\* mouse-down on a resize handle of the selected element: startResize stops
\* the propagation
StartResize(corner) ==
  /\ CanPoint
  /\ ~pointer.held
  /\ pointer.activeTool = "select"
  /\ pointer.selectedElement \in PageIds(pageElements)
  /\ ElementById(pageElements, pointer.selectedElement).type = "text"
  /\ pointer' = [Input(pointer, "down") EXCEPT !.held = TRUE, !.isResizing = TRUE,
                                                !.resizeCorner = corner]
  /\ UNCHANGED <<pageElements, history, historyIndex, sent, PageRest, Server, Wire, ExceptPointer>>

\* mouse-down on the empty surface
SurfaceMouseDown ==
  /\ CanPoint
  /\ ~pointer.held
  /\ pointer.activeTool = "select" \/ Len(pageElements) < MaxPage
  /\ LET r == StartDrawingSurface(pointer, pageElements)
     IN /\ pointer' = [Input(r.pointer, "down") EXCEPT !.held = TRUE]
        /\ pageElements' = r.elements
  /\ UNCHANGED <<history, historyIndex, sent, PageRest, Server, Wire, ExceptPointer>>

\* mouse-move over the container: handleMouseMove (the first of resize, line,
\* pen and drag that applies) and handleCursorMove; far tells whether the
\* sample is 2 or more away from the last retained point
MouseMove(far) ==
  /\ CanPoint
  /\ LET p   == pointer
         sel == p.selectedElement
         tmp == p.drawingTempId
         p1  == [Input(p, "move") EXCEPT !.cursorUpdateTimeout = @ \/ isConnected]
     IN IF p.isResizing /\ sel # 0
        THEN /\ pageElements' = Changed(pageElements, sel)
             /\ pointer' = p1
             /\ UNCHANGED crashed
        ELSE IF tmp # 0 /\ p.activeTool = "line"
        THEN /\ pageElements' = Changed(pageElements, tmp)
             /\ pointer' = p1
             /\ UNCHANGED crashed
        ELSE IF tmp # 0 /\ p.activeTool = "pen"
        THEN IF ElementById(pageElements, tmp).type # "freehand"
             THEN \* el.points is undefined: the updater throws
                  /\ crashed' = TRUE
                  /\ pointer' = Input(p, "move")
                  /\ UNCHANGED pageElements
             ELSE /\ pageElements' =
                       IF far
                       THEN [i \in 1..Len(pageElements) |->
                               IF pageElements[i].id = tmp
                               THEN [pageElements[i] EXCEPT !.points = @ + 1, !.val = 1 - @]
                               ELSE pageElements[i]]
                       ELSE pageElements
                  /\ pointer' = p1
                  /\ UNCHANGED crashed
        ELSE IF p.activeTool = "select" /\ p.isDragging /\ sel # 0
        THEN LET newElements == Changed(pageElements, sel)
             IN /\ pageElements' = newElements
                /\ pointer' = IF isConnected /\ sel \in PageIds(newElements)
                              THEN [p1 EXCEPT !.positionUpdateTimeout =
                                                 <<ElementById(newElements, sel)>>,
                                              !.owed = {o \in @ : o.id # sel}]
                              ELSE p1
                /\ UNCHANGED crashed
        ELSE /\ pointer' = p1
             /\ UNCHANGED <<pageElements, crashed>>
  /\ UNCHANGED <<history, historyIndex, sent, isConnected, listenerIndex, act, run,
                 Server, Wire, ExceptPointer>>

\* realtimeCollab.broadcastElementUpdate(updatedElement), from a timer
ElementUpdateOf(el) == [ev |-> "element-update", id |-> el.id, val |-> el.val]

\* the update the pending window.positionUpdateTimeout will send, for the
\* element the pointer drags
Pending(p) ==
  {ElementUpdateOf(p.positionUpdateTimeout[i]) :
     i \in {j \in 1..Len(p.positionUpdateTimeout) :
              p.positionUpdateTimeout[j].id = p.selectedElement}}

\* recordHistory(elements) if flag, by a handler that closed over historyIndex
RecordIf(flag, h) ==
  IF flag
  THEN RecordHistory(h.history, h.historyIndex, historyIndex, pageElements)
  ELSE h

\* the button is released: over the container handleMouseUp runs; over the
\* toolbar, the navigation bar or outside the window no handler of the page does
MouseUp(inside) ==
  /\ CanPoint
  /\ pointer.held
  /\ IF inside
     THEN LET h0 == [history |-> history, historyIndex |-> historyIndex]
              h1 == RecordIf(pointer.isDragging, h0)
              h2 == RecordIf(pointer.isResizing, h1)
              h3 == RecordIf(pointer.drawingTempId # 0, h2)
          IN /\ history' = h3.history
             /\ historyIndex' = h3.historyIndex
             /\ pointer' = [Input(pointer, "up") EXCEPT
                              !.held = FALSE,
                              !.isDragging = FALSE,
                              !.isResizing = FALSE,
                              !.resizeCorner = None,
                              !.drawingTempId = 0,
                              !.owed = IF pointer.isDragging THEN @ \cup Pending(pointer) ELSE @,
                              !.ended = {g \in {"drag", "resize", "draw"} :
                                           \/ g = "drag" /\ pointer.isDragging
                                           \/ g = "resize" /\ pointer.isResizing
                                           \/ g = "draw" /\ pointer.drawingTempId # 0}]
     ELSE /\ pointer' = [Input(pointer, "up-outside") EXCEPT !.held = FALSE]
          /\ UNCHANGED <<history, historyIndex>>
  /\ UNCHANGED <<pageElements, sent, PageRest, Server, Wire, ExceptPointer>>

\* the click that follows a release on the element the button went down on:
\* handleSelectElement stops the propagation
ElementClick(id) ==
  /\ CanPoint
  /\ pointer.did = "up"
  /\ id \in PageIds(pageElements)
  /\ pointer' = [Input(pointer, "click") EXCEPT !.selectedElement = id, !.activeTool = "select"]
  /\ UNCHANGED <<pageElements, history, historyIndex, sent, PageRest, Server, Wire, ExceptPointer>>

\* the click on the surface: handleCanvasClick
CanvasClick ==
  /\ CanPoint
  /\ pointer.did = "up"
  /\ pointer' = [Input(pointer, "click") EXCEPT !.selectedElement = 0]
  /\ pageElements' = [i \in 1..Len(pageElements) |->
                        Merge(pageElements[i], [isEditing |-> FALSE])]
  /\ UNCHANGED <<history, historyIndex, sent, PageRest, Server, Wire, ExceptPointer>>

SetEditing(els, id, on) ==
  [i \in 1..Len(els) |-> IF els[i].id = id THEN Merge(els[i], [isEditing |-> on]) ELSE els[i]]

\* handleDoubleClick: the text box shows its textarea
DoubleClick(id) ==
  /\ CanPoint
  /\ ~pointer.held
  /\ id \in PageIds(pageElements)
  /\ pointer' = Input(pointer, "dblclick")
  /\ pageElements' = SetEditing(pageElements, id, TRUE)
  /\ UNCHANGED <<history, historyIndex, sent, PageRest, Server, Wire, ExceptPointer>>

\* the textarea's onChange: handleTextChange
TextChange(id) ==
  /\ CanPoint
  /\ id \in PageIds(pageElements)
  /\ ElementById(pageElements, id).type = "text"
  /\ IsEditing(ElementById(pageElements, id))
  /\ LET newElements == Changed(pageElements, id)
     IN /\ pageElements' = newElements
        /\ pointer' = IF isConnected
                      THEN [Input(pointer, "type") EXCEPT
                              !.textUpdateTimeout = <<ElementById(newElements, id)>>]
                      ELSE Input(pointer, "type")
  /\ UNCHANGED <<history, historyIndex, sent, PageRest, Server, Wire, ExceptPointer>>

\* the textarea's onBlur
TextBlur(id) ==
  /\ CanPoint
  /\ id \in PageIds(pageElements)
  /\ ElementById(pageElements, id).type = "text"
  /\ IsEditing(ElementById(pageElements, id))
  /\ pointer' = [Input(pointer, "blur") EXCEPT !.ended = {"edit"}]
  /\ pageElements' = SetEditing(pageElements, id, FALSE)
  /\ UNCHANGED <<history, historyIndex, sent, PageRest, Server, Wire, ExceptPointer>>

\* window.positionUpdateTimeout fires, 100 ms after the last drag move
PositionUpdateTimeout ==
  /\ ~crashed
  /\ pointer.positionUpdateTimeout # <<>>
  /\ sent' = IF isConnected
             THEN Append(sent, ElementUpdateOf(pointer.positionUpdateTimeout[1]))
             ELSE sent
  /\ pointer' = [pointer EXCEPT !.positionUpdateTimeout = <<>>, !.did = "timer", !.ended = {},
                                !.owed = IF isConnected
                                         THEN @ \ {ElementUpdateOf(pointer.positionUpdateTimeout[1])}
                                         ELSE @]
  /\ UNCHANGED <<pageElements, history, historyIndex, PageRest, Server, Wire, ExceptPointer>>

\* window.textUpdateTimeout fires, 500 ms after the last text change
TextUpdateTimeout ==
  /\ ~crashed
  /\ pointer.textUpdateTimeout # <<>>
  /\ sent' = IF isConnected
             THEN Append(sent, ElementUpdateOf(pointer.textUpdateTimeout[1]))
             ELSE sent
  /\ pointer' = [pointer EXCEPT !.textUpdateTimeout = <<>>, !.did = "timer", !.ended = {}]
  /\ UNCHANGED <<pageElements, history, historyIndex, PageRest, Server, Wire, ExceptPointer>>

\* window.cursorUpdateTimeout fires, 50 ms after the last move
CursorUpdateTimeout ==
  /\ ~crashed
  /\ pointer.cursorUpdateTimeout
  /\ sent' = IF isConnected THEN Append(sent, [ev |-> "cursor-move", id |-> 0, val |-> 0])
             ELSE sent
  /\ pointer' = [pointer EXCEPT !.cursorUpdateTimeout = FALSE, !.did = "timer", !.ended = {}]
  /\ UNCHANGED <<pageElements, history, historyIndex, PageRest, Server, Wire, ExceptPointer>>

NextPtr ==
  \/ Subscribe
  \/ \E t \in Tools : ToolButton(t)
  \/ \E id \in PtrIds : ElementMouseDown(id)
  \/ \E corner \in {"nw", "se"} : StartResize(corner)
  \/ SurfaceMouseDown
  \/ \E far \in BOOLEAN : MouseMove(far)
  \/ \E inside \in BOOLEAN : MouseUp(inside)
  \/ \E id \in PtrIds : ElementClick(id)
  \/ CanvasClick
  \/ \E id \in PtrIds : DoubleClick(id)
  \/ \E id \in PtrIds : TextChange(id)
  \/ \E id \in PtrIds : TextBlur(id)
  \/ PositionUpdateTimeout
  \/ TextUpdateTimeout
  \/ CursorUpdateTimeout

SpecPtr == InitPtr /\ [][NextPtr]_vars

\* C27: the dragging flag, the resizing flag and a non-null drawing temp id
\* are never set at the same time: at most one of the three is set.
C27_OneGestureAtATime ==
  Cardinality({g \in {"drag", "resize", "draw"} :
                 \/ g = "drag" /\ pointer.isDragging
                 \/ g = "resize" /\ pointer.isResizing
                 \/ g = "draw" /\ pointer.drawingTempId # 0}) <= 1

\* the input just handled committed a gesture on element id: a release over
\* the container while id was dragged, resized or drawn, or the blur of its
\* editor
Committed(id) ==
  \/ /\ pointer'.ended \cap {"drag", "resize"} # {}
     /\ pointer.selectedElement = id
  \/ /\ "draw" \in pointer'.ended
     /\ pointer.drawingTempId = id
  \/ /\ "edit" \in pointer'.ended
     /\ IsEditing(ElementById(pageElements, id))
     /\ ~IsEditing(ElementById(pageElements', id))

\* the element as it now is has been emitted to the server, or a timer of the
\* page is about to emit it
Announced(id) ==
  LET el == ElementById(pageElements', id)
  IN \/ \E i \in 1..Len(sent') :
          /\ sent'[i].ev \in {"element-create", "element-update"}
          /\ sent'[i].id = id
          /\ sent'[i].val = el.val
     \/ \E t \in {pointer'.positionUpdateTimeout, pointer'.textUpdateTimeout} :
          t # <<>> /\ t[1].id = id /\ t[1].val = el.val

\* C28: every committed transition (a pointer-up that ends a drag, a resize
\* or a draw, the blur of a text editor) records a history snapshot of the
\* resulting element array and, when the client is connected, sends the
\* resulting mutation to the server.
C28_CommitRecordsAndSends ==
  [][(pointer' # pointer /\ pointer'.ended # {}) =>
       /\ history' # history
       /\ history'[Len(history')] = DeepCopy(pageElements')
       /\ isConnected =>
            \A id \in PageIds(pageElements') : Committed(id) => Announced(id)]_vars

(* ======================================================================= *)
(*      Resizing and freehand drawing: the geometry (CanvasPageFixed.jsx)  *)
(* ======================================================================= *)
\* Lengths are exact: a logical pixel is 6 units, so that a client pixel is a
\* whole number of units at every scale below. The scale is carried in
\* quarters: 1, 2, 4, 8, 12 are 0.25 (the lower clamp of applyZoom), 0.5, 1
\* (the initial scale), 2 and 3 (its upper clamp).
Px(n) == 6 * n
Scales == {1, 2, 4, 8, 12}

\* (e.clientX - surfaceRect.left) / scale, for a pointer c client pixels
\* right of (below) the surface's corner
Logical(c, scale) == c * (Px(4) \div scale)

\* 40 / scale
MinimumSize(scale) == 40 * (Px(4) \div scale)

Max(a, b) == IF a > b THEN a ELSE b

\* the pointer positions of a resize and of a stroke, in client pixels
ResizeSamples == {0, 300, 900}
PenSamples == {0, 1, 2, 3}
Corners == {"nw", "ne", "sw", "se"}

\* the text box addElement builds, where the viewport put it
NewTextBox == [type |-> "text", x |-> Px(100), y |-> Px(100), width |-> Px(240),
               height |-> Px(120), points |-> <<>>]

\* the element startDrawingSurface builds for the pen at (x, y)
NewFreehand(x, y) == [type |-> "freehand", x |-> x, y |-> y, width |-> Px(1),
                      height |-> Px(1), points |-> <<[x |-> x, y |-> y]>>]

\* shape: the element under the pointer (el), the zoom (scale), the corner
\* grabbed (corner); and, history, the number of pointer samples so far (raw),
\* the last of them (at), whether every one was less than 2 from the one
\* before (close), and whether the last was retained (kept).
InitShape ==
  /\ Fresh /\ Quiet /\ Unmounted
  /\ client = NoClient /\ overlay = NoOverlay /\ pointer = NoPointer
  /\ \E scale \in Scales :
       \/ \E corner \in Corners :
            shape = [did |-> "startResize", scale |-> scale, corner |-> corner, el |-> NewTextBox,
                     raw |-> 0, at |-> [x |-> 0, y |-> 0], close |-> TRUE, kept |-> FALSE]
       \/ \E cx \in PenSamples, cy \in {0, 1} :
            LET x == Logical(cx, scale)
                y == Logical(cy, scale)
            IN shape = [did |-> "startDrawingSurface", scale |-> scale, corner |-> None,
                        el |-> NewFreehand(x, y), raw |-> 1, at |-> [x |-> x, y |-> y],
                        close |-> TRUE, kept |-> TRUE]

\* corner.includes(letter)
Includes(corner, letter) ==
  \/ letter = "n" /\ corner \in {"nw", "ne"}
  \/ letter = "s" /\ corner \in {"sw", "se"}
  \/ letter = "w" /\ corner \in {"nw", "sw"}
  \/ letter = "e" /\ corner \in {"ne", "se"}

\* the element handleElementResize returns for the pointer at logical
\* (newX, newY)
Resized(el, corner, scale, newX, newY) ==
  LET w1 == IF Includes(corner, "e") THEN Max(MinimumSize(scale), newX - el.x) ELSE el.width
      h1 == IF Includes(corner, "s") THEN Max(MinimumSize(scale), newY - el.y) ELSE el.height
      w2 == IF Includes(corner, "w") THEN Max(MinimumSize(scale), w1 - (newX - el.x)) ELSE w1
      x2 == IF Includes(corner, "w") THEN newX ELSE el.x
      h2 == IF Includes(corner, "n") THEN Max(MinimumSize(scale), h1 - (newY - el.y)) ELSE h1
      y2 == IF Includes(corner, "n") THEN newY ELSE el.y
  IN [el EXCEPT !.x = x2, !.y = y2, !.width = w2, !.height = h2]

ExceptShape == <<client, overlay, pointer>>

\* a mouse-move while resizing: handleElementResize
ResizeMove(cx, cy) ==
  /\ shape.el.type = "text"
  /\ shape.raw < MaxSamples
  /\ LET newX == Logical(cx, shape.scale)
         newY == Logical(cy, shape.scale)
     IN shape' = [shape EXCEPT !.did = "resize", !.raw = @ + 1,
                               !.at = [x |-> newX, y |-> newY],
                               !.el = Resized(shape.el, shape.corner, shape.scale, newX, newY)]
  /\ UNCHANGED <<Server, Page, Wire, ExceptShape>>

\* Math.hypot(a - c, b - d), squared
Hypot2(a, b, c, d) == (a - c) * (a - c) + (b - d) * (b - d)

TooCloseNever(a, b, c, d) == FALSE

\* distance < 2, in logical pixels
TooClose(a, b, c, d) == Hypot2(a, b, c, d) < Px(2) * Px(2)

SetMin(S) == CHOOSE m \in S : \A n \in S : m <= n
SetMax(S) == CHOOSE m \in S : \A n \in S : m >= n

\* (maxX - minX) || 1
OrOne(d) == IF d = 0 THEN Px(1) ELSE d

\* the element handlePenDrawing returns for the pointer at logical (px, py)
PenDrawn(el, px, py) ==
  LET lastPoint == el.points[Len(el.points)]
  IN IF TooClose(px, py, lastPoint.x, lastPoint.y) THEN el
     ELSE LET newPoints == Append(el.points, [x |-> px, y |-> py])
              xs == {newPoints[i].x : i \in 1..Len(newPoints)}
              ys == {newPoints[i].y : i \in 1..Len(newPoints)}
          IN [el EXCEPT !.points = newPoints,
                        !.x = SetMin(xs), !.y = SetMin(ys),
                        !.width = OrOne(SetMax(xs) - SetMin(xs)),
                        !.height = OrOne(SetMax(ys) - SetMin(ys))]

\* a mouse-move while drawing with the pen: handlePenDrawing
PenMove(cx, cy) ==
  /\ shape.el.type = "freehand"
  /\ shape.raw < MaxSamples
  /\ LET px == Logical(cx, shape.scale)
         py == Logical(cy, shape.scale)
         el == PenDrawn(shape.el, px, py)
     IN shape' = [shape EXCEPT !.did = "pen", !.raw = @ + 1,
                               !.at = [x |-> px, y |-> py],
                               !.close = @ /\ Hypot2(px, py, shape.at.x, shape.at.y) < Px(2) * Px(2),
                               !.kept = el # shape.el,
                               !.el = el]
  /\ UNCHANGED <<Server, Page, Wire, ExceptShape>>

\* applyZoom, by the wheel or a pinch, between two samples
Zoom(scale) ==
  /\ scale # shape.scale
  /\ shape.did # "zoom"
  /\ shape' = [shape EXCEPT !.did = "zoom", !.scale = scale]
  /\ UNCHANGED <<Server, Page, Wire, ExceptShape>>

NextShape ==
  \/ \E cx, cy \in ResizeSamples : ResizeMove(cx, cy)
  \/ \E cx \in PenSamples, cy \in {0, 1} : PenMove(cx, cy)
  \/ \E scale \in Scales : Zoom(scale)

SpecShape == InitShape /\ [][NextShape]_vars

\* C29: while an element is resized, from any corner, at any scale and for
\* any pointer position, its width and its height are at least 20 logical
\* pixels.
C29_ResizeMinimum ==
  shape.did = "resize" => shape.el.width >= Px(20) /\ shape.el.height >= Px(20)

\* the retained points of the stroke, and the point retained before the last
Retained == shape.el.points
Xs == {Retained[i].x : i \in 1..Len(Retained)}
Ys == {Retained[i].y : i \in 1..Len(Retained)}

\* C30, as stated: a sample is retained only when it is farther than the
\* threshold (2) from the last retained point; a stroke whose consecutive
\* samples are all less than 2 apart retains fewer points than it had
\* samples; and after every pointer-move x, y, width and height are the
\* bounding box of the retained points: its origin their minima, its width
\* and height their extents.
C30_ThinnedTightBox ==
  shape.did = "pen" =>
    /\ shape.kept =>
         LET n == Len(Retained)
         IN Hypot2(Retained[n].x, Retained[n].y, Retained[n - 1].x, Retained[n - 1].y)
              > Px(2) * Px(2)
    /\ (shape.close /\ shape.raw >= 2) => Len(Retained) < shape.raw
    /\ shape.el.x = SetMin(Xs)
    /\ shape.el.y = SetMin(Ys)
    /\ shape.el.width = SetMax(Xs) - SetMin(Xs)
    /\ shape.el.height = SetMax(Ys) - SetMin(Ys)

\* C30, amended: a sample is retained if and only if it is 2 logical pixels
\* or more from the last retained point; a stroke whose consecutive samples
\* are all less than 2 apart retains fewer points than it had samples; and
\* after every pointer-move x and y are the minima of the retained points,
\* and width and height their extents, or 1 where the extent is 0.
C30_ThinnedBoxAtLeastOne ==
  shape.did = "pen" =>
    LET n == Len(Retained)
    IN /\ shape.kept =>
            /\ Retained[n] = shape.at
            /\ Hypot2(Retained[n].x, Retained[n].y, Retained[n - 1].x, Retained[n - 1].y)
                 >= Px(2) * Px(2)
       /\ ~shape.kept =>
            Hypot2(shape.at.x, shape.at.y, Retained[n].x, Retained[n].y) < Px(2) * Px(2)
       /\ (shape.close /\ shape.raw >= 2) => n < shape.raw
       /\ shape.el.x = SetMin(Xs)
       /\ shape.el.y = SetMin(Ys)
       /\ shape.el.width = (IF SetMax(Xs) = SetMin(Xs) THEN Px(1) ELSE SetMax(Xs) - SetMin(Xs))
       /\ shape.el.height = (IF SetMax(Ys) = SetMin(Ys) THEN Px(1) ELSE SetMax(Ys) - SetMin(Ys))

\* C30 witness: a stroke of three samples, each less than 2 from the one
\* before: the second was skipped, the third, 2 from the first, was retained;
\* the points lie on a horizontal line and the box is 1 high.
C30_Witness ==
  /\ shape.did = "pen"
  /\ shape.raw = 3
  /\ shape.close
  /\ shape.kept
  /\ Len(shape.el.points) = 2
  /\ shape.el.width = Px(2)
  /\ shape.el.height = Px(1)
  /\ Ys = {shape.el.y}

\* C31: with the eraser tool active, a pointer-down on an element, of any
\* type, removes that element from the page's elements, and the dragging,
\* resizing and drawing flags are after it what they were before.
C31_EraserDeletesWhatItHits ==
  [][(/\ pointer' # pointer
      /\ pointer'.did = "down"
      /\ pointer'.target # 0
      /\ pointer.activeTool = "eraser")
     => /\ pointer'.target \notin PageIds(pageElements')
        /\ Len(pageElements') = Len(pageElements) - 1
        /\ pointer'.isDragging = pointer.isDragging
        /\ pointer'.isResizing = pointer.isResizing
        /\ pointer'.drawingTempId = pointer.drawingTempId]_vars

(* ======================================================================= *)
(*                     Further properties of the history                   *)
(* ======================================================================= *)
\* C32: the history pointer is valid: it is -1 exactly when the history is
\* empty, and otherwise 0 <= historyIndex < history.length.
C32_HistoryPointerValid ==
  /\ historyIndex = -1 <=> history = <<>>
  /\ history # <<>> => 0 <= historyIndex /\ historyIndex < Len(history)

(* ======================================================================= *)
(*                    Further properties of the presence                   *)
(* ======================================================================= *)
\* C33: the two presence maps agree: a user id is in the tracked member set
\* of board B if and only if that user has a presence entry whose
\* currentBoard is B.
C33_PresenceMapsAgree ==
  \A u \in Users, b \in BoardIds :
    (b \in DOMAIN boardRooms /\ u \in boardRooms[b])
      <=> (activeUsers[u].present /\ activeUsers[u].currentBoard = b)

(* ======================================================================= *)
(*           permission-updated and user-removed (socketHandlers.js)       *)
(* ======================================================================= *)
Roles == {"editor", "viewer"}

\* socket.on('permission-updated'): relayed to the room the event names
PermissionUpdated(s, userId, newRole, boardId) ==
  /\ s \in connected
  /\ out' = <<Emit(SocketTo(rooms, s, boardId), "permission-updated",
                   [userId |-> userId, newRole |-> newRole, updatedBy |-> UserOf[s]])>>
  /\ last' = Step("permission-updated", s, boardId, "done")
  /\ UNCHANGED <<connected, closed, activeUsers, boardRooms, rooms, boards, pend, member,
                 nMut, nSaved, Page, Wire, Elsewhere>>

\* socket.on('user-removed'): the socket of the user's presence entry, if it
\* is open, is told and taken out of the board the event names; the event is
\* then relayed to that board's room
UserRemoved(s, userId, boardId) ==
  /\ s \in connected
  /\ LET rs   == activeUsers[userId].socketId
         open == activeUsers[userId].present /\ rs \in connected
         r    == HandleUserLeaveBoard(boardRooms, rooms, activeUsers, rs, boardId)
         rm1  == IF open THEN r.rm ELSE rooms
         told == [userId |-> userId, boardId |-> boardId, removedBy |-> UserOf[s]]
     IN /\ IF open
           THEN /\ boardRooms' = r.br
                /\ rooms' = r.rm
                /\ activeUsers' = r.au
                /\ member' = [member EXCEPT ![rs] = IF @ = boardId THEN None ELSE @]
                /\ out' = <<Emit({rs}, "user-removed", told)>> \o r.out
                            \o <<Emit(SocketTo(rm1, s, boardId), "user-removed", told)>>
           ELSE /\ out' = <<Emit(SocketTo(rm1, s, boardId), "user-removed", told)>>
                /\ UNCHANGED <<boardRooms, rooms, activeUsers, member>>
  /\ last' = Step("user-removed", s, boardId, "done")
  /\ UNCHANGED <<connected, closed, boards, pend, nMut, nSaved, Page, Wire, Elsewhere>>

\* u1 (c1) and u2 (c3) are on a board, and u1 may have a second connection
\* (c2) that joined nothing
InitAdm ==
  /\ boards = InitialBoards
  /\ \E b \in {"B1", "B2"} : Joined(b) \/ JoinedBeside(b)
  /\ pend = [c \in Conns |-> Idle]
  /\ nMut = 0
  /\ nSaved = [b \in {"B1", "B2"} |-> 0]
  /\ last = Step("init", None, None, "done")
  /\ out = <<>>
  /\ Quiet
  /\ Unmounted
  /\ Detached

NextAdm ==
  \/ \E s \in Conns, u \in Users, r \in Roles, b \in BoardIds : PermissionUpdated(s, u, r, b)
  \/ \E s \in Conns, u \in Users, b \in BoardIds : UserRemoved(s, u, b)
  \/ \E s \in Conns : LeaveBoard(s)
  \/ \E s \in Conns : Disconnect(s)

SpecAdm == InitAdm /\ [][NextAdm]_vars

\* C34: a connection's membership of a board (its place in the board's
\* socket room) ends only through its own leave-board, its own disconnect or
\* its own join-board to another board: no event of a different connection
\* removes it, unless the sender is the board's owner.
C34_OnlyOwnEventsEndMembership ==
  [][\A c \in Conns, b \in BoardIds :
       (b \in rooms[c] /\ b \notin rooms'[c])
       => \/ /\ last'.conn = c
             /\ last'.ev \in {"leave-board", "disconnect", "join-board"}
          \/ /\ b \in DOMAIN boards
             /\ boards[b].owner = UserOf[last'.conn]]_vars

\* C35: a connection causes an event to be delivered to the members of a
\* board only while it is itself a member of it: whenever a handler run for
\* a client's event writes to other sockets of the room of the board the
\* event names, the sender was in that room.
C35_RelayOnlyWithinOwnBoard ==
  [][\A i \in 1..Len(out') :
       (/\ out' # out \/ last' # last
        /\ last'.boardId \in BoardIds
        /\ \E c \in out'[i].to : c # last'.conn /\ last'.boardId \in rooms[c])
       => last'.boardId \in rooms[last'.conn]]_vars

(* ======================================================================= *)
(*            The collaboration hook's effect, run and cleaned up          *)
(* ======================================================================= *)
\* the page is opened for any board id, B3 being a board that does not exist
InitHook ==
  Fresh /\ Quiet /\ Unmounted /\ overlay = NoOverlay /\ Still /\ \E b \in BoardIds : Opened(b)

JoinBoardOf(s, b) == [ev |-> "join-board", sock |-> s, boardId |-> b]

\* the effect's cleanup (unmount, or boardId changed): leaveBoard() when the
\* service's current board is this one, which returns at once while the
\* socket is not connected; the timer of attemptJoin is not cleared. stale
\* holds the boards of the timers left pending that way.
Cleanup ==
  /\ client.page # None
  /\ LET leaves == client.board = client.page /\ client.sock # None /\ client.svc
     IN client' = [client EXCEPT
                     !.page = None,
                     !.wire = IF leaves
                              THEN Append(@, [ev |-> "leave-board", sock |-> client.sock,
                                              boardId |-> client.page])
                              ELSE @,
                     !.board = IF leaves THEN None ELSE @,
                     !.timer = FALSE,
                     !.stale = IF client.timer THEN @ \cup {client.page} ELSE @]
  /\ UNCHANGED <<Server, Page, Wire, ExceptClient>>

\* attemptJoin of an effect that was cleaned up, run by the timer it left
\* behind; boardId is the one of its closure
StaleAttemptJoin(b, late) ==
  /\ b \in client.stale
  /\ IF client.svc
     THEN client' = [client EXCEPT !.board = b,
                                   !.wire = Append(@, JoinBoardOf(client.sock, b)),
                                   !.hook = TRUE,
                                   !.stale = @ \ {b},
                                   !.resent = client.lost]
     ELSE client' = [client EXCEPT !.stale = IF late THEN @ \ {b} ELSE @]
  /\ UNCHANGED <<Server, Page, Wire, ExceptClient>>

\* the effect runs again for boardId while the socket is connected:
\* socketService.connect returns the socket it has, and attemptJoin joins
\* at once
Reopen(b) ==
  /\ client.page = None
  /\ client.svc
  /\ client.opens < MaxOpens
  /\ client' = [client EXCEPT !.page = b,
                              !.board = b,
                              !.wire = Append(@, JoinBoardOf(client.sock, b)),
                              !.hook = TRUE,
                              !.resent = client.lost,
                              !.opens = @ + 1]
  /\ UNCHANGED <<Server, Page, Wire, ExceptClient>>

\* the server receives the tab's next event, join-board or leave-board
ServerTake ==
  /\ client.wire # <<>>
  /\ LET m == Head(client.wire)
     IN IF m.ev = "join-board" THEN OnJoinBoard(m.sock, m.boardId) ELSE OnLeaveBoard(m.sock)
  /\ client' = [client EXCEPT !.wire = Tail(@)]
  /\ UNCHANGED ExceptClient

NextHook ==
  \/ \E s \in TabSockets : ClientConnect(s)
  \/ ConnectError
  \/ \E late \in BOOLEAN : AttemptJoin(late)
  \/ ClientDisconnect
  \/ ServerTake
  \/ \E s \in TabSockets : ServerJoin(s)
  \/ \E s \in TabSockets : ServerDisconnect(s)
  \/ Cleanup
  \/ \E b \in BoardIds, late \in BOOLEAN : StaleAttemptJoin(b, late)
  \/ \E b \in BoardIds : Reopen(b)

SpecHook == InitHook /\ [][NextHook]_vars

\* the board the server records for the socket s: the currentBoard of the
\* activeUsers entry of its user, while that entry is the one of s
BoardOf(s) ==
  IF s # None /\ activeUsers[UserOf[s]].present /\ activeUsers[UserOf[s]].socketId = s
  THEN activeUsers[UserOf[s]].currentBoard
  ELSE None

\* nothing is in flight between the tab and the server, no timer is set and
\* the server knows of no other socket of the tab
Settled ==
  /\ client.link = "up"
  /\ client.wire = <<>>
  /\ \A c \in Conns : pend[c] = Idle
  /\ ~client.timer
  /\ client.stale = {}
  /\ connected \cap TabSockets = {client.sock}

\* C36: client and server agree on the current board: once every message in
\* flight has been processed, socketService.currentBoard equals the board the
\* server records for that connection (both none, or the same board).
C36_ClientAndServerAgree == Settled => client.board = BoardOf(client.sock)

\* a join-board was emitted by this step
JoinSent == Len(client'.wire) > Len(client.wire) /\ client'.wire[Len(client'.wire)].ev = "join-board"

\* C37: after the hook's cleanup has run for board B the client sends no
\* further join-board for B: every join-board emitted is for the board of
\* the effect that is mounted at that moment, so a retry timer still pending
\* at the cleanup never results in a join.
C37_NoJoinAfterCleanup ==
  [][JoinSent => client'.wire[Len(client'.wire)].boardId = client'.page]_vars

\* the page mounted with two text boxes stored
InitDrag ==
  /\ Fresh /\ Quiet
  /\ client = NoClient /\ overlay = NoOverlay /\ Still
  /\ Mounted(<<TextBox(1), TextBox(2)>>)

SpecDrag == InitDrag /\ [][NextPtr]_vars

\* C38: while the client is connected, every drag that ended with pointer-up
\* gets its element's final position sent, even when another drag begins
\* within the 100 ms after its last move: the update a finished drag still
\* owes (pointer.owed) is the one the pending timer will send. An owed
\* update the timer does not hold is sent by no later step but a new drag
\* of that element.
C38_FinalPositionStillToBeSent ==
  \A o \in pointer.owed :
    /\ pointer.positionUpdateTimeout # <<>>
    /\ ElementUpdateOf(pointer.positionUpdateTimeout[1]) = o

(* ======================================================================= *)
(*                    Element ids as numbers and as strings                *)
(* ======================================================================= *)
\* the ids the clients send: 1 always as a number (Date.now() of addElement),
\* 2 always as a string
SentIds == {NumberId(1), 2}
SentElements == [id : SentIds, val : Vals]

\* two users on a board whose element list is empty
InitIds == InitMut /\ boards = InitialBoards

NextIds ==
  \/ \E s \in Conns, b \in BoardIds, e \in SentElements : ElementCreate(s, b, e)
  \/ \E s \in Conns : ElementCreateFound(s)
  \/ \E s \in Conns, ok \in BOOLEAN : ElementCreateSaved(s, ok)
  \/ \E s \in Conns, b \in BoardIds, e \in SentElements : ElementUpdate(s, b, e)
  \/ \E s \in Conns : ElementUpdateFound(s)
  \/ \E s \in Conns, ok \in BOOLEAN : ElementUpdateSaved(s, ok)
  \/ \E s \in Conns, b \in BoardIds, i \in SentIds : ElementDelete(s, b, i)
  \/ \E s \in Conns : ElementDeleteFound(s)
  \/ \E s \in Conns, ok \in BOOLEAN : ElementDeleteSaved(s, ok)

SpecIds == InitIds /\ [][NextIds]_vars

\* C39: after an element-create carrying id i has succeeded on the board, an
\* element-update or element-delete for id i from an editor finds the stored
\* element and is not rejected with 'Element not found', whether i was sent
\* as a number or as a string. Every stored element was created with the id
\* of SentIds that casts to its id, and nothing but a delete removes one.
C39_CreatedElementIsFound ==
  [][ \A s \in Conns :
        (/\ Resumed(s) /\ pend[s].pc = "find"
         /\ pend[s].ev \in {"element-update", "element-delete"}
         /\ IsEditor(s, pend[s].boardId)
         /\ CastString(pend[s].element.id) \in Ids(boards[pend[s].boardId].elements)) =>
          \A i \in 1..Len(out') : ~(out'[i].ev = "error" /\ out'[i].arg = "Element not found")
    ]_vars

(* ======================================================================= *)
(*                  The owner changes a collaborator's access              *)
(* ======================================================================= *)
\* POST /api/boards/:boardId/collaborators by the owner: addCollaborator sets
\* the role of a collaborator it finds, else pushes a new one, and saves
AddCollaborator(boardId, userId, role) ==
  /\ boardId \in DOMAIN boards
  /\ userId # boards[boardId].owner
  /\ boards[boardId].collaborators[userId] # role
  /\ boards[boardId].versionKey < MaxVersionKey
  /\ boards' = [boards EXCEPT
                  ![boardId].collaborators[userId] = role,
                  ![boardId].versionKey =
                     IF boards[boardId].collaborators[userId] = None THEN @ + 1 ELSE @]
  /\ last' = Step("add-collaborator", None, boardId, "done")
  /\ out' = <<>>
  /\ UNCHANGED <<Presence, pend, nMut, nSaved, Page, Wire, Elsewhere>>

\* DELETE /api/boards/:boardId/collaborators/:userId by the owner:
\* removeCollaborator assigns the filtered array and saves
RemoveCollaborator(boardId, userId) ==
  /\ boardId \in DOMAIN boards
  /\ boards[boardId].collaborators[userId] # None
  /\ boards[boardId].versionKey < MaxVersionKey
  /\ boards' = [boards EXCEPT ![boardId].collaborators[userId] = None,
                              ![boardId].versionKey = @ + 1]
  /\ last' = Step("remove-collaborator", None, boardId, "done")
  /\ out' = <<>>
  /\ UNCHANGED <<Presence, pend, nMut, nSaved, Page, Wire, Elsewhere>>

\* the boards some user is on
Attended == {b \in DOMAIN boards : \E u \in Users : CurrentBoard(u) = b}

\* the mutation handlers, and the owner's changes to a board somebody is on
NextRole ==
  \/ \E s \in Conns, b \in BoardIds, a \in {"add", "update", "delete"}, e \in ClientElements :
        CanvasUpdate(s, b, a, e, <<>>)
  \/ \E s \in Conns, b \in BoardIds, es \in ClientArrays :
        CanvasUpdate(s, b, "batch", [id |-> 0, val |-> 0], es)
  \/ \E s \in Conns : CanvasUpdateFound(s)
  \/ \E s \in Conns, ok \in BOOLEAN : CanvasUpdateSaved(s, ok)
  \/ \E s \in Conns, b \in BoardIds, e \in ClientElements : ElementCreate(s, b, e)
  \/ \E s \in Conns : ElementCreateFound(s)
  \/ \E s \in Conns, ok \in BOOLEAN : ElementCreateSaved(s, ok)
  \/ \E s \in Conns, b \in BoardIds, e \in ClientElements : ElementUpdate(s, b, e)
  \/ \E s \in Conns : ElementUpdateFound(s)
  \/ \E s \in Conns, ok \in BOOLEAN : ElementUpdateSaved(s, ok)
  \/ \E s \in Conns, b \in BoardIds, i \in ElemIds : ElementDelete(s, b, i)
  \/ \E s \in Conns : ElementDeleteFound(s)
  \/ \E s \in Conns, ok \in BOOLEAN : ElementDeleteSaved(s, ok)
  \/ \E s \in Conns, b \in BoardIds, es \in ClientArrays : BoardSave(s, b, es)
  \/ \E s \in Conns : BoardSaveFound(s)
  \/ \E s \in Conns, ok \in BOOLEAN : BoardSaveSaved(s, ok)
  \/ \E b \in Attended, u \in Users, r \in Roles : AddCollaborator(b, u, r)
  \/ \E b \in Attended, u \in Users : RemoveCollaborator(b, u)

\* u1, an editor of B2, and its owner u2 are on B2, whose list is empty
InitRole == InitMut /\ boards = InitialBoards /\ CurrentBoard("u1") = "B2"

SpecRole == InitRole /\ [][NextRole]_vars

\* the socket's user joined the board as its owner or an editor and the board
\* grants it less now
Demoted(s, b) ==
  /\ b \in DOMAIN boards
  /\ activeUsers[UserOf[s]].present
  /\ activeUsers[UserOf[s]].currentBoard = b
  /\ activeUsers[UserOf[s]].role \in {"owner", "editor"}
  /\ ~IsEditor(s, b)

\* C40: the edit permission of a mutation is decided from the role the board
\* grants the sender when the mutation is handled, not from the role recorded
\* when it joined: once a member's role is viewer or its access is revoked,
\* every mutation handled afterwards is rejected with an access-denied error
\* and leaves the stored elements unchanged, though it never re-joined.
C40_PermissionAtHandlingTime ==
  [][ \A s \in Conns :
        (/\ Resumed(s) /\ pend[s].pc = "find" /\ IsMutation(pend[s])
         /\ Demoted(s, pend[s].boardId)) =>
          /\ Len(out') = 1
          /\ out'[1].ev = "error" /\ out'[1].arg \in AccessDenied
          /\ boards'[pend[s].boardId].elements = boards[pend[s].boardId].elements
    ]_vars

====
